---- MODULE Spec2Model ----
(***************************************************************************)
(* Transfer engine of surf (src/src/core.rs): download_file, its probe,    *)
(* the single-stream and the parallel segmented downloader, and the        *)
(* tokio Semaphore that admits the workers.                                *)
(*                                                                         *)
(* The output file is a sequence of runs.  A run [k, off, len] stands for  *)
(* len consecutive bytes: k = "res" are the bytes off .. off+len-1 of the  *)
(* resource, k = "zero" is zero fill (set_len), k = "old" are bytes of a   *)
(* file that was at the output path before and is not the resource.        *)
(***************************************************************************)
EXTENDS Integers, Sequences, FiniteSets, TLC

\* ---------------------------------------------------------------- constants
DEFAULT_CONNECT_TIMEOUT == 10
PARALLEL_DOWNLOAD_THRESHOLD == 10000000

\* ------------------------------------------------------------------- bounds
MaxParallel == 2          \* requested parallelism ranges over 1 .. MaxParallel
MaxInvocations == 2       \* download_file runs on the same output path
MaxChunks == 2            \* chunks one response body is delivered in
MaxIdle == 2              \* idle_timeout ranges over 1 .. MaxIdle (seconds)
MaxTotal == 6             \* SpecPlan: sizes and offsets range over 0 .. MaxTotal
MaxSegments == 4          \* SpecPlan: parallelism ranges over 0 .. MaxSegments
MaxRequests == 3          \* benchmark: requests ranges over 0 .. MaxRequests
MaxConcurrency == 2       \* benchmark: concurrency ranges over 0 .. MaxConcurrency
SmallSize == 5            \* size of the small resource served (bytes)
MaxSamples == 5           \* SpecStats: latency samples recorded
MaxHeaders == 2           \* SpecClient: header strings given to build_client
MaxHeaderLen == 3         \* SpecClient: bytes in one header string

\* latencies of a benchmark request (ms)
Latencies == {10, 20}
\* what a benchmark request ends with: a status, or 0 for a transport error
BenchOutcomes == {0, 199, 200, 399, 400}

\* sizes of the resources served (bytes)
ResourceSizes == {SmallSize, 1000000, 10000003}

Min(a, b) == IF a <= b THEN a ELSE b

\* ------------------------------------------------------------ file contents
Run(k, off, len) == [k |-> k, off |-> off, len |-> len]

RECURSIVE FileLen(_)
FileLen(f) == IF f = <<>> THEN 0 ELSE Head(f).len + FileLen(Tail(f))

\* the part of run r from its byte n on (n < r.len)
RunFrom(r, n) ==
    Run(r.k, IF r.k = "zero" THEN 0 ELSE r.off + n, r.len - n)

\* the first n bytes of f (f has at least n bytes)
RECURSIVE Take(_, _)
Take(f, n) ==
    IF n = 0 \/ f = <<>> THEN <<>>
    ELSE IF Head(f).len <= n
         THEN <<Head(f)>> \o Take(Tail(f), n - Head(f).len)
         ELSE <<Run(Head(f).k, Head(f).off, n)>>

\* f without its first n bytes
RECURSIVE Drop(_, _)
Drop(f, n) ==
    IF f = <<>> THEN <<>>
    ELSE IF n = 0 THEN f
    ELSE IF Head(f).len <= n THEN Drop(Tail(f), n - Head(f).len)
         ELSE <<RunFrom(Head(f), n)>> \o Tail(f)

Joins(a, b) ==
    /\ a.k = b.k
    /\ a.k = "zero" \/ a.off + a.len = b.off

\* canonical form: adjacent runs that continue each other are one run
RECURSIVE Norm(_)
Norm(f) ==
    IF Len(f) <= 1 THEN f
    ELSE LET a == f[1]
             b == f[2]
         IN IF Joins(a, b)
            THEN Norm(<<Run(a.k, a.off, a.len + b.len)>> \o Tail(Tail(f)))
            ELSE <<a>> \o Norm(Tail(f))

\* File::set_len: truncate, or extend with zero fill
SetLen(f, n) ==
    IF n <= FileLen(f) THEN Norm(Take(f, n))
    ELSE Norm(f \o <<Run("zero", 0, n - FileLen(f))>>)

\* write in append mode: the bytes go to the end of the file
AppendBytes(f, r) == IF r.len = 0 THEN f ELSE Norm(f \o <<r>>)

\* FileExt::write_at: positioned write, a gap before pos is zero fill
WriteAt(f, pos, r) ==
    IF r.len = 0 THEN f
    ELSE LET g == IF FileLen(f) < pos THEN SetLen(f, pos) ELSE f
         IN Norm(Take(g, pos) \o <<r>> \o Drop(g, pos + r.len))

\* the bytes lo .. hi-1 of the resource
ResBytes(lo, hi) == IF hi > lo THEN <<Run("res", lo, hi - lo)>> ELSE <<>>

\* run kinds of the bytes lo .. hi-1 of f
Slice(f, lo, hi) == Norm(Take(Drop(f, lo), hi - lo))

\* -------------------------------------------------------------------- state
VARIABLES
    resource_len,    \* length of the resource the server holds
    head,            \* the HEAD response's headers: [content_length, accept_ranges]
    output,          \* the output path: [exists, data]
    runs_left,       \* download_file invocations still to come on this path
    args,            \* [parallel, continue_download, idle_timeout]
    pc,              \* position of the main task
    result,          \* what download_file returned: NoResult, Ok or an error
    total_size,      \* get_download_info: Content-Length, 0 = unknown
    supports_range,  \* get_download_info: Accept-Ranges = "bytes"
    downloaded,      \* resume offset
    strategy,        \* branch download_file took: "none", "single", "parallel"
    stream,          \* response body of download_single, or NoStream; idle is
                     \* the time the pending timeout has run, since the time
                     \* since the last chunk (or the response), elapsed the
                     \* time since the response
    tasks,           \* workers of download_parallel, indexed 0 .. parallel-1
    permits,         \* permits available in the Semaphore
    join_i,          \* index of the task the join loop waits for
    pb,              \* position of the progress bar
    gets,            \* GET requests issued by this invocation
    rx,              \* body bytes received by this invocation
    before,          \* the output path as a resuming invocation found it
    last,            \* strategy and result of the invocation before this one
    unix,            \* the build target: cfg(unix), or cfg(not(unix))
    cursor,          \* the cursor of the File the workers share (it moves
                     \* only in a build that is not unix)
    plan,            \* strategy and segments computed for given arguments
    bench,           \* benchmark_url: [pc, requests, concurrency, join_i]
    btasks,          \* its spawned tasks, indexed 0 .. requests-1: [state,
                     \* code, ms], code the status the request ended with
                     \* (0: none)
    semaphore,       \* permits available in its Semaphore
    stats,           \* BenchmarkStats
    report,          \* what print_results printed, or NoReport
    client,          \* build_client: its arguments, the headers it has gone
                     \* through, the header map, and the Client or the error
    cache,           \* the cached configuration file (CachedConfig as saved)
    cmd,             \* an invocation of handle_download_with_cache: the
                     \* command line as typed, the parsed arguments, its
                     \* position, what it passed to download_file, its result
    history,         \* RequestHistory: [entries, max_entries]
    added,           \* every entry the history has held, in insertion order
    recent,          \* the last call of get_recent: [limit, entries]
    game             \* run_game: the Game and the position of the loop

dvars == <<resource_len, head, output, runs_left, args, pc, result, total_size,
           supports_range, downloaded, strategy, stream, tasks, permits,
           join_i, pb, gets, rx, before, last, unix, cursor>>

bvars == <<bench, btasks, semaphore, stats, report>>

xvars == <<cache, cmd, history, added, recent, game>>

vars == <<dvars, plan, bvars, client, xvars>>

NoResult == [kind |-> "none"]
Ok == [kind |-> "Ok"]
\* TimeoutError::IdleTimeout(secs), TimeoutError::ConnectTimeout
IdleTimeout(secs) == [kind |-> "IdleTimeout", secs |-> secs]
ConnectTimeout == [kind |-> "ConnectTimeout"]
\* an untyped anyhow error: a reqwest error, a bad status, an io error
Transport(is_timeout) == [kind |-> "Transport", is_timeout |-> is_timeout]
BadStatus(s) == [kind |-> "Status", status |-> s]
IoError == [kind |-> "Io"]

NoStream == [state |-> "none"]
NoArgs == [parallel |-> 0, continue_download |-> FALSE, idle_timeout |-> 0]
Absent == [exists |-> FALSE, data |-> <<>>]
OldFile == [exists |-> TRUE, data |-> <<Run("old", 0, 7)>>]

\* StatusCode::is_success
is_success(s) == 200 <= s /\ s <= 299

\* lengths the next chunk of a body with left bytes to come may have: any
\* length when few bytes are left, else all of it or all but the last byte
ChunkLens(left) ==
    IF left <= SmallSize THEN 1 .. left ELSE {left - 1, left}

NoPlan == [state |-> "none"]
NoClient == [state |-> "none"]
NoReport == [printed |-> FALSE]

\* BenchmarkStats::new (core.rs:629-636)
NewStats ==
    [response_times |-> <<>>, status_codes |-> <<>>,
     successful_requests |-> 0, failed_requests |-> 0]

\* benchmark_url at position at, "none": the command is not bench
BenchAt(at) ==
    /\ bench = [pc |-> at, requests |-> 0, concurrency |-> 0, join_i |-> 0]
    /\ btasks = <<>>
    /\ semaphore = 0
    /\ stats = NewStats
    /\ report = NoReport
NoLast == [strategy |-> "none", result |-> NoResult]

\* a header of the HEAD response: absent, or present with its value's bytes
NoHeader == [present |-> FALSE, text |-> <<>>]
Header(text) == [present |-> TRUE, text |-> text]

\* the bytes of "bytes"
BytesText == <<98, 121, 116, 101, 115>>

\* the decimal digits of n, as a server writes a Content-Length
RECURSIVE to_decimal(_)
to_decimal(n) ==
    IF n < 10 THEN <<48 + n>> ELSE to_decimal(n \div 10) \o <<48 + (n % 10)>>

\* what a well-behaved server says of a resource of n bytes
ServerHeads(n) ==
    [content_length : {NoHeader, Header(to_decimal(n))},
     accept_ranges : {NoHeader, Header(BytesText)}]

\* Option<T>
None == [some |-> FALSE]
Some(v) == [some |-> TRUE, v |-> v]
\* Option::or, Option::unwrap_or
or(a, b) == IF a.some THEN a ELSE b
unwrap_or(a, default) == IF a.some THEN a.v ELSE default

\* CachedConfig::default(), which load_from_file gives when there is no
\* file: the fields the download command writes, requests for the fields
\* only the bench and get commands write, no_color and profile
DefaultCachedConfig ==
    [parallel |-> None, continue_download |-> None, idle_timeout |-> None,
     http3 |-> None, requests |-> None, no_color |-> None, profile |-> None]

\* RequestHistory::default()
DefaultHistory == [entries |-> <<>>, max_entries |-> 1000]

\* no command runs: nothing typed, nothing passed to download_file
NoCmd ==
    [pc |-> "none",
     typed |-> [parallel |-> None, continue_download |-> FALSE,
                idle_timeout |-> None, http3 |-> FALSE, no_color |-> FALSE,
                use_cache |-> FALSE, no_save |-> FALSE, profile |-> None],
     loaded |-> DefaultCachedConfig,
     conflicts |-> {},
     passed |-> [parallel |-> 0, continue_download |-> FALSE,
                 idle_timeout |-> 0, http3 |-> FALSE],
     result |-> NoResult]
NoRecent == [called |-> FALSE, limit |-> 0, of |-> <<>>, entries |-> <<>>]

\* no command that reads the cache or the history runs, nor the game
ExtrasIdle ==
    /\ cache = DefaultCachedConfig
    /\ cmd = NoCmd
    /\ history = DefaultHistory
    /\ added = <<>>
    /\ recent = NoRecent
    /\ game = [pc |-> "none"]

\* download_file has not been invoked, runs invocations are to come
NotStarted(runs) ==
    /\ runs_left = runs
    /\ args = NoArgs
    /\ pc = "idle"
    /\ result = NoResult
    /\ total_size = 0
    /\ supports_range = FALSE
    /\ downloaded = 0
    /\ strategy = "none"
    /\ stream = NoStream
    /\ tasks = <<>>
    /\ permits = 0
    /\ join_i = 0
    /\ pb = 0
    /\ gets = 0
    /\ rx = 0
    /\ before = Absent
    /\ last = NoLast
    /\ cursor = 0

\* the state before download_file has been invoked, runs invocations to come
InitDownload(runs) ==
    /\ resource_len \in ResourceSizes
    /\ head \in ServerHeads(resource_len)
    /\ output \in {Absent, OldFile}
    /\ NotStarted(runs)
    /\ unix = TRUE

Init ==
    /\ InitDownload(MaxInvocations)
    /\ plan = NoPlan
    /\ BenchAt("none")
    /\ client = NoClient
    /\ ExtrasIdle

\* one invocation of download_file
InitRun ==
    /\ InitDownload(1)
    /\ plan = NoPlan
    /\ BenchAt("none")
    /\ client = NoClient
    /\ ExtrasIdle

\* ---------------------------------------------------------------- build_client
\* no bound on the duration of a request
NoTimeout == [bounded |-> FALSE, secs |-> 0]

\* core.rs:91-107: the bound build_client sets on the duration of a whole
\* request, response body included
total_timeout(client_type) ==
    CASE client_type = "Get" -> [bounded |-> TRUE, secs |-> 300]
      [] client_type = "Download" -> NoTimeout
      [] client_type = "Benchmark" -> [bounded |-> TRUE, secs |-> 60]

\* bytes a header string is made of: a, A, colon, space, DEL
HeaderBytes == {97, 65, 58, 32, 127}

\* the header strings given, as sequences of bytes
HeaderStrings == UNION {[1 .. n -> HeaderBytes] : n \in 0 .. MaxHeaderLen}

\* char::is_whitespace on an ASCII byte
is_whitespace(b) == b \in {9, 10, 11, 12, 13, 32}

RECURSIVE trim_start(_)
trim_start(s) ==
    IF s # <<>> /\ is_whitespace(Head(s)) THEN trim_start(Tail(s)) ELSE s

RECURSIVE trim_end(_)
trim_end(s) ==
    IF s # <<>> /\ is_whitespace(s[Len(s)])
    THEN trim_end(SubSeq(s, 1, Len(s) - 1)) ELSE s

\* str::trim
trim(s) == trim_end(trim_start(s))

\* str::split_once(':'): the place of the first colon, 0 when there is none
split_once(s) ==
    IF \E i \in DOMAIN s : s[i] = 58
    THEN CHOOSE i \in DOMAIN s :
            s[i] = 58 /\ \A j \in 1 .. i - 1 : s[j] # 58
    ELSE 0

\* a byte a header name may hold: letters, digits, !#$%&'*+-.^_`|~
is_tchar(b) ==
    \/ b \in 48 .. 57
    \/ b \in 65 .. 90
    \/ b \in 97 .. 122
    \/ b \in {33, 35, 36, 37, 38, 39, 42, 43, 45, 46, 94, 95, 96, 124, 126}

to_lower(b) == IF b \in 65 .. 90 THEN b + 32 ELSE b

\* HeaderName::from_str: not empty, token bytes only; the name in lower case
HeaderName_from_str(key) ==
    IF key = <<>> \/ \E i \in DOMAIN key : ~is_tchar(key[i])
    THEN [ok |-> FALSE, v |-> <<>>]
    ELSE [ok |-> TRUE, v |-> [i \in DOMAIN key |-> to_lower(key[i])]]

\* HeaderValue::from_str: no control byte but the tab
HeaderValue_from_str(value) ==
    IF \E i \in DOMAIN value :
          ~((value[i] >= 32 /\ value[i] # 127) \/ value[i] = 9)
    THEN [ok |-> FALSE, v |-> <<>>]
    ELSE [ok |-> TRUE, v |-> value]

\* core.rs:40-52: Ok((name, value)), or the error: "colon", "name", "value"
parse_header(header_str) ==
    LET at == split_once(header_str)
        key == trim(SubSeq(header_str, 1, at - 1))
        value == trim(SubSeq(header_str, at + 1, Len(header_str)))
        header_name == HeaderName_from_str(key)
        header_value == HeaderValue_from_str(value)
    IN IF at = 0
       THEN [ok |-> FALSE, error |-> "colon", name |-> <<>>, value |-> <<>>]
       ELSE IF ~header_name.ok
       THEN [ok |-> FALSE, error |-> "name", name |-> <<>>, value |-> <<>>]
       ELSE IF ~header_value.ok
       THEN [ok |-> FALSE, error |-> "value", name |-> <<>>, value |-> <<>>]
       ELSE [ok |-> TRUE, error |-> "none", name |-> header_name.v,
             value |-> header_value.v]

\* HeaderMap::insert that keeps the value a name already has
insert_keep_first(header_map, name, value) ==
    [x \in DOMAIN header_map \cup {name} |->
        IF x \in DOMAIN header_map THEN header_map[x] ELSE value]

\* HeaderMap::insert: the value of the name is replaced (core.rs:113)
insert(header_map, name, value) ==
    [x \in DOMAIN header_map \cup {name} |->
        IF x = name THEN value ELSE header_map[x]]

\* the calls of build_client, by client type
ClientArgs ==
    [state : {"args"}, client_type : {"Get", "Download", "Benchmark"}]

\* core.rs:74-109: redirect policy, connect timeout, the timeout of the
\* client type, an empty header map
build_client ==
    /\ client.state = "args"
    /\ client' = [state |-> "headers", client_type |-> client.client_type,
                  timeout |-> total_timeout(client.client_type),
                  header_map |-> <<>>, n |-> 0, header |-> <<>>,
                  warned |-> FALSE]
    /\ UNCHANGED <<dvars, plan, bvars, xvars>>

\* build_client_header with a header that has a colon and a name or value
\* that cannot be encoded ending build_client with an error
build_client_header_fatal ==
    /\ client.state = "headers"
    /\ client.n < MaxHeaders
    /\ client.client_type = "Get"
    /\ \E header \in HeaderStrings :
         LET parsed == parse_header(header)
         IN client' =
              IF parsed.ok
              THEN [client EXCEPT
                      !.header_map = insert(@, parsed.name, parsed.value),
                      !.n = @ + 1, !.header = header, !.warned = FALSE]
              ELSE IF parsed.error = "colon"
              THEN [client EXCEPT !.n = @ + 1, !.header = header,
                                  !.warned = TRUE]
              ELSE [client EXCEPT !.state = "error", !.n = @ + 1,
                                  !.header = header, !.warned = FALSE]
    /\ UNCHANGED <<dvars, plan, bvars, xvars>>

\* core.rs:110-120: one turn of the loop over the headers; only the get
\* command passes headers (cli.rs), download_file and benchmark_url pass none
build_client_header ==
    /\ client.state = "headers"
    /\ client.n < MaxHeaders
    /\ client.client_type = "Get"
    /\ \E header \in HeaderStrings :
         LET parsed == parse_header(header)
         IN client' =
              IF parsed.ok
              THEN [client EXCEPT
                      !.header_map = insert(@, parsed.name, parsed.value),
                      !.n = @ + 1, !.header = header, !.warned = FALSE]
              ELSE [client EXCEPT !.n = @ + 1, !.header = header,
                                  !.warned = TRUE]
    /\ UNCHANGED <<dvars, plan, bvars, xvars>>

\* core.rs:121-142: the headers are done; http3 asked of a build without
\* the http3 feature is an error, else the Client is built with header_map
\* as its default headers
build_client_end ==
    /\ client.state = "headers"
    /\ \E http3 \in BOOLEAN, feature \in BOOLEAN :
         client' = [client EXCEPT
                      !.state = IF http3 /\ ~feature
                                THEN "unsupported" ELSE "built"]
    /\ UNCHANGED <<dvars, plan, bvars, xvars>>

\* --------------------------------------------------------------- download_file
\* use_parallel with the size test at, not above, the threshold and no
\* test of the resume offset
use_parallel_loose(sr, ts, parallel, dl) ==
    /\ sr
    /\ parallel > 1
    /\ ts >= PARALLEL_DOWNLOAD_THRESHOLD

\* core.rs:191-195
use_parallel(sr, ts, parallel, dl) ==
    /\ sr
    /\ ts > 0
    /\ parallel > 1
    /\ ts > PARALLEL_DOWNLOAD_THRESHOLD
    /\ dl < ts

\* core.rs:177-182
resume_offset(cont, out) ==
    IF cont /\ out.exists THEN FileLen(out.data) ELSE 0

\* HeaderValue::to_str: the value as text, when every byte is visible ASCII
\* or a tab
to_str(text) ==
    IF \A i \in 1 .. Len(text) : text[i] = 9 \/ (text[i] >= 32 /\ text[i] < 127)
    THEN [ok |-> TRUE, text |-> text]
    ELSE [ok |-> FALSE, text |-> <<>>]

RECURSIVE digits_value(_)
digits_value(ds) ==
    IF ds = <<>> THEN 0
    ELSE 10 * digits_value(SubSeq(ds, 1, Len(ds) - 1)) + (ds[Len(ds)] - 48)

\* str::parse::<u64>: an optional '+', then one or more decimal digits (the
\* texts drawn here are short, so the value never overflows)
parse_u64(text) ==
    LET ds == IF text # <<>> /\ text[1] = 43 THEN Tail(text) ELSE text
    IN  IF ds # <<>> /\ \A i \in 1 .. Len(ds) : ds[i] >= 48 /\ ds[i] <= 57
        THEN [ok |-> TRUE, value |-> digits_value(ds)]
        ELSE [ok |-> FALSE, value |-> 0]

\* the probe who takes Accept-Ranges for granted when the header is present
get_download_info_any_ranges ==
    LET cl == head.content_length
        ar == head.accept_ranges
        parsed == IF cl.present /\ to_str(cl.text).ok
                  THEN parse_u64(to_str(cl.text).text)
                  ELSE [ok |-> FALSE, value |-> 0]
    IN  <<IF parsed.ok THEN parsed.value ELSE 0,
          ar.present /\ to_str(ar.text).ok>>

\* core.rs:227-246: (total_size, supports_range) from the HEAD response
get_download_info ==
    LET cl == head.content_length
        ar == head.accept_ranges
        parsed == IF cl.present /\ to_str(cl.text).ok
                  THEN parse_u64(to_str(cl.text).text)
                  ELSE [ok |-> FALSE, value |-> 0]
    IN  <<IF parsed.ok THEN parsed.value ELSE 0,
          ar.present /\ to_str(ar.text).ok /\ to_str(ar.text).text = BytesText>>

\* a new process runs download_file; workers of an earlier process are gone
Fresh(a) ==
    /\ pc \in {"idle", "done"}
    /\ runs_left > 0
    /\ runs_left' = runs_left - 1
    /\ args' = a
    /\ before' = IF a.continue_download THEN output ELSE Absent
    /\ last' = [strategy |-> strategy, result |-> result]
    /\ stream' = NoStream
    /\ tasks' = <<>>
    /\ permits' = 0
    /\ join_i' = 0
    /\ gets' = 0
    /\ rx' = 0

ArgSet ==
    [parallel : 1 .. MaxParallel, continue_download : BOOLEAN,
     idle_timeout : 1 .. MaxIdle]

\* the HEAD request fails, by a stalled connection or otherwise:
\* get_download_info returns the error with a context (core.rs:221-225)
download_file_head_fails ==
    \E a \in ArgSet :
        /\ Fresh(a)
        /\ \E is_timeout \in BOOLEAN : result' = Transport(is_timeout)
        /\ pc' = "done"
        /\ strategy' = "none"
        /\ total_size' = 0
        /\ supports_range' = FALSE
        /\ downloaded' = 0
        /\ pb' = 0
        /\ UNCHANGED <<xvars, bvars, client, plan, unix, cursor, resource_len, head, output>>

\* download_file up to the call of download_single or download_parallel
download_file ==
    \E a \in ArgSet :
        LET info == get_download_info
            ts == info[1]
            accept_ranges == info[2]
            dl == resume_offset(a.continue_download, output)
        IN /\ Fresh(a)
           /\ total_size' = ts
           /\ supports_range' = accept_ranges
           /\ downloaded' = dl
           /\ result' = NoResult
           /\ pb' = 0
           /\ IF use_parallel(accept_ranges, ts, a.parallel, dl)
              THEN strategy' = "parallel" /\ pc' = "download_parallel"
              ELSE strategy' = "single" /\ pc' = "download_single"
           /\ UNCHANGED <<xvars, bvars, client, plan, unix, cursor, resource_len, head, output>>

\* ------------------------------------------------------------- download_single
\* OpenOptions::new().create(true).append(true).open(output)  (core.rs:260-265)
open_append(out) == [exists |-> TRUE, data |-> out.data]

\* already_complete for an exact match only
already_complete_exact(cur, ts) == cur = ts /\ ts > 0

\* core.rs:273: the transfer is already complete
already_complete(cur, ts) == cur >= ts /\ ts > 0

\* core.rs:260-277: open the file, return at once when nothing is missing
single_short_circuit ==
    /\ pc = "download_single"
    /\ already_complete(downloaded, total_size)
    /\ output' = open_append(output)
    /\ pb' = downloaded
    /\ result' = Ok
    /\ pc' = "done"
    /\ UNCHANGED <<xvars, bvars, client, plan, unix, cursor, last, resource_len, head, runs_left, args, total_size, supports_range,
                   downloaded, strategy, stream, tasks, permits, join_i,
                   gets, rx, before>>

\* core.rs:260-287: open the file and send the GET, with Range when resuming
single_request ==
    /\ pc = "download_single"
    /\ ~already_complete(downloaded, total_size)
    /\ output' = open_append(output)
    /\ pb' = downloaded
    /\ gets' = gets + 1
    /\ stream' = [state |-> "sent", range_sent |-> downloaded > 0,
                  range_from |-> downloaded,
                  current_downloaded |-> downloaded]
    /\ pc' = "single_send"
    /\ UNCHANGED <<xvars, bvars, client, plan, unix, cursor, last, resource_len, head, runs_left, args, result, total_size,
                   supports_range, downloaded, strategy, tasks, permits,
                   join_i, rx, before>>

\* request.send() fails; an error with is_timeout() becomes ConnectTimeout
\* (core.rs:287-293)
single_send_error ==
    /\ pc = "single_send"
    /\ \E is_timeout \in BOOLEAN :
          result' = IF is_timeout THEN ConnectTimeout ELSE Transport(FALSE)
    /\ stream' = [stream EXCEPT !.state = "failed"]
    /\ pc' = "done"
    /\ UNCHANGED <<xvars, bvars, client, plan, unix, cursor, last, resource_len, head, output, runs_left, args, total_size,
                   supports_range, downloaded, strategy, tasks, permits,
                   join_i, pb, gets, rx, before>>

\* statuses the server may answer a GET for the bytes from..  with
ServerStatuses(range_sent, from) ==
    {200, 204, 404} \cup
    (IF range_sent THEN (IF from < resource_len THEN {206} ELSE {416}) ELSE {})

\* the body that comes with a status: [first byte, bytes]
BodyOf(s, from, upto) ==
    IF s = 200 THEN [boff |-> 0, left |-> resource_len]
    ELSE IF s = 206 THEN [boff |-> from, left |-> upto - from]
    ELSE [boff |-> 0, left |-> 0]

\* the response arrives (core.rs:295-306)
single_response ==
    /\ pc = "single_send"
    /\ \E s \in ServerStatuses(stream.range_sent, stream.range_from) :
         IF ~is_success(s)
         THEN /\ result' = BadStatus(s)
              /\ stream' = [stream EXCEPT !.state = "failed"]
              /\ pc' = "done"
         ELSE LET b == BodyOf(s, stream.range_from, resource_len)
              IN /\ stream' = [state |-> "streaming",
                               range_sent |-> stream.range_sent,
                               range_from |-> stream.range_from,
                               current_downloaded |-> stream.current_downloaded,
                               status |-> s, boff |-> b.boff, left |-> b.left,
                               idle |-> 0, chunks |-> 0,
                               since |-> 0, elapsed |-> 0]
                 /\ pc' = "single_stream"
                 /\ result' = result
    /\ UNCHANGED <<xvars, bvars, client, plan, unix, cursor, last, resource_len, head, output, runs_left, args, total_size,
                   supports_range, downloaded, strategy, tasks, permits,
                   join_i, pb, gets, rx, before>>

\* single_chunk with one timer for the whole body: the wait for the next
\* chunk goes on with the time already spent
single_chunk_one_timer ==
    /\ pc = "single_stream"
    /\ stream.idle < args.idle_timeout
    /\ stream.chunks < MaxChunks
    /\ \E c \in ChunkLens(stream.left) :
         /\ output' = [output EXCEPT
                         !.data = AppendBytes(@, Run("res", stream.boff, c))]
         /\ stream' = [stream EXCEPT
                         !.current_downloaded = @ + c,
                         !.boff = @ + c, !.left = @ - c,
                         !.chunks = @ + 1, !.since = 0]
         /\ pb' = stream.current_downloaded + c
         /\ rx' = rx + c
    /\ UNCHANGED <<xvars, bvars, client, plan, unix, cursor, last, resource_len, head, runs_left, args, pc, result, total_size,
                   supports_range, downloaded, strategy, tasks, permits,
                   join_i, gets, before>>

\* Ok(Some(item)), item Ok: write the chunk, advance; the next turn of the
\* loop waits with a new timeout (core.rs:316-326)
single_chunk ==
    /\ pc = "single_stream"
    /\ stream.idle < args.idle_timeout
    /\ stream.chunks < MaxChunks
    /\ \E c \in ChunkLens(stream.left) :
         /\ output' = [output EXCEPT
                         !.data = AppendBytes(@, Run("res", stream.boff, c))]
         /\ stream' = [stream EXCEPT
                         !.current_downloaded = @ + c,
                         !.boff = @ + c, !.left = @ - c,
                         !.idle = 0, !.chunks = @ + 1, !.since = 0]
         /\ pb' = stream.current_downloaded + c
         /\ rx' = rx + c
    /\ UNCHANGED <<xvars, bvars, client, plan, unix, cursor, last, resource_len, head, runs_left, args, pc, result, total_size,
                   supports_range, downloaded, strategy, tasks, permits,
                   join_i, gets, before>>

\* Ok(Some(item)) with item Err: the transport fails mid-body (core.rs:319)
single_chunk_error ==
    /\ pc = "single_stream"
    /\ stream.idle < args.idle_timeout
    /\ stream.left > 0
    /\ result' = Transport(FALSE)
    /\ stream' = [stream EXCEPT !.state = "failed"]
    /\ pc' = "done"
    /\ UNCHANGED <<xvars, bvars, client, plan, unix, cursor, last, resource_len, head, output, runs_left, args, total_size,
                   supports_range, downloaded, strategy, tasks, permits,
                   join_i, pb, gets, rx, before>>

\* a chunk arrives and write_all fails (core.rs:320-322)
single_write_error ==
    /\ pc = "single_stream"
    /\ stream.idle < args.idle_timeout
    /\ stream.chunks < MaxChunks
    /\ \E c \in ChunkLens(stream.left) : rx' = rx + c
    /\ result' = IoError
    /\ stream' = [stream EXCEPT !.state = "failed"]
    /\ pc' = "done"
    /\ UNCHANGED <<xvars, bvars, client, plan, unix, cursor, last, resource_len, head, output, runs_left, args, total_size,
                   supports_range, downloaded, strategy, tasks, permits,
                   join_i, pb, gets, before>>

\* Ok(None): the body is complete (core.rs:340-347, 360-380)
single_end ==
    /\ pc = "single_stream"
    /\ stream.idle < args.idle_timeout
    /\ stream.left = 0
    /\ stream' = [stream EXCEPT !.state = "ended"]
    /\ result' = Ok
    /\ pc' = "done"
    /\ UNCHANGED <<xvars, bvars, client, plan, unix, cursor, last, resource_len, head, output, runs_left, args, total_size,
                   supports_range, downloaded, strategy, tasks, permits,
                   join_i, pb, gets, rx, before>>

\* single_idle_timeout discarding what this invocation has written
single_idle_timeout_rollback ==
    /\ pc = "single_stream"
    /\ stream.idle >= args.idle_timeout
    /\ stream' = [stream EXCEPT !.state = "failed"]
    /\ result' = IdleTimeout(args.idle_timeout)
    /\ pc' = "done"
    /\ output' = [output EXCEPT
                    !.data = SetLen(@, FileLen(@) - rx)]
    /\ UNCHANGED <<xvars, bvars, client, plan, unix, cursor, last, resource_len, head, runs_left, args,
                   total_size, supports_range, downloaded, strategy, tasks,
                   permits, join_i, pb, gets, rx, before>>

\* Err(_): idle_timeout seconds without a chunk (core.rs:348-356)
single_idle_timeout ==
    /\ pc = "single_stream"
    /\ stream.idle >= args.idle_timeout
    /\ stream' = [stream EXCEPT !.state = "failed"]
    /\ result' = IdleTimeout(args.idle_timeout)
    /\ pc' = "done"
    /\ UNCHANGED <<xvars, bvars, client, plan, unix, cursor, last, resource_len, head, output, runs_left, args, total_size,
                   supports_range, downloaded, strategy, tasks, permits,
                   join_i, pb, gets, rx, before>>

\* ----------------------------------------------------------- download_parallel
\* core.rs:408
chunk_size(ts, dl, parallel) == (ts - dl) \div parallel

\* core.rs:426
segment_start(i, dl, cs) == dl + i * cs

\* segment_end without the remainder given to the last task
segment_end_no_remainder(i, ts, dl, parallel, cs) ==
    dl + (i + 1) * cs - 1

\* segment_end one byte too far
segment_end_exclusive(i, ts, dl, parallel, cs) ==
    IF i = parallel - 1 THEN ts - 1 ELSE dl + (i + 1) * cs

\* core.rs:427-431
segment_end(i, ts, dl, parallel, cs) ==
    IF i = parallel - 1 THEN ts - 1 ELSE dl + (i + 1) * cs - 1

\* core.rs:425-431: the byte range of every task
segments(ts, dl, parallel) ==
    LET cs == chunk_size(ts, dl, parallel)
    IN [i \in 0 .. parallel - 1 |->
          [start |-> segment_start(i, dl, cs),
           end |-> segment_end(i, ts, dl, parallel, cs)]]

\* File::create(output) and set_len(total_size)  (core.rs:403-405)
create_presized(ts) == [exists |-> TRUE, data |-> SetLen(<<>>, ts)]

\* a spawned task: its segment, how far it has written, the status it got
\* (0: no response yet), the error it returned, and the length of the chunk
\* its blocking write holds (0: none)
NewTask(seg) ==
    [state |-> "acquire", start |-> seg.start, end |-> seg.end,
     current_pos |-> seg.start, left |-> 0, idle |-> 0, chunks |-> 0,
     since |-> 0, status |-> 0, error |-> NoResult, pending |-> 0]

\* core.rs:397-437: nothing missing: return; else create the file, then
\* degrade to download_single or spawn one task per segment
download_parallel ==
    /\ pc = "download_parallel"
    /\ LET parallel == args.parallel
           remaining == total_size - downloaded
           cs == chunk_size(total_size, downloaded, parallel)
       IN IF remaining = 0
          THEN /\ result' = Ok
               /\ pc' = "done"
               /\ UNCHANGED <<output, tasks, permits, pb, cursor>>
          ELSE /\ output' = create_presized(total_size)
               /\ cursor' = 0
               /\ result' = result
               /\ IF cs = 0
                  THEN /\ pc' = "download_single"
                       /\ UNCHANGED <<tasks, permits, pb>>
                  ELSE /\ tasks' =
                            [i \in 0 .. parallel - 1 |->
                               NewTask(segments(total_size, downloaded,
                                                parallel)[i])]
                       /\ permits' = parallel
                       /\ pb' = downloaded
                       /\ pc' = "join"
    /\ UNCHANGED <<xvars, bvars, client, plan, unix, last, resource_len, head, runs_left, args, total_size, supports_range,
                   downloaded, strategy, stream, join_i, gets, rx, before>>

Workers == DOMAIN tasks

\* the variables a worker step leaves alone
WorkerFrame ==
    UNCHANGED <<xvars, bvars, client, plan, unix, cursor, resource_len, head, runs_left, args, pc, result,
                total_size, supports_range, downloaded, strategy, stream,
                join_i, before, last>>

\* semaphore.acquire() returns, the range request goes out (core.rs:440-449)
worker_acquire(i) ==
    /\ tasks[i].state = "acquire"
    /\ permits > 0
    /\ permits' = permits - 1
    /\ tasks' = [tasks EXCEPT ![i].state = "send"]
    /\ gets' = gets + 1
    /\ WorkerFrame
    /\ UNCHANGED <<output, pb, rx>>

\* a task that returns Err(e) and keeps its permit
worker_fails_keeps_permit(i, e) ==
    /\ tasks' = [tasks EXCEPT ![i].state = "err", ![i].error = e,
                              ![i].left = 0, ![i].idle = 0, ![i].chunks = 0,
                              ![i].since = 0]
    /\ permits' = permits

\* the task returns Err(e); dropping _permit releases the permit
worker_fails(i, e) ==
    /\ tasks' = [tasks EXCEPT ![i].state = "err", ![i].error = e,
                              ![i].left = 0, ![i].idle = 0, ![i].chunks = 0,
                              ![i].since = 0]
    /\ permits' = permits + 1

\* send() fails, by a stalled connection or otherwise; the error is
\* returned with a context, whatever its kind (core.rs:445-450)
worker_send_error(i) ==
    /\ tasks[i].state = "send"
    /\ \E is_timeout \in BOOLEAN : worker_fails(i, Transport(is_timeout))
    /\ WorkerFrame
    /\ UNCHANGED <<output, pb, gets, rx>>

\* the task goes on to stream the body of a response with status s
worker_accepts(i, s) ==
    /\ tasks' = [tasks EXCEPT
                   ![i].state = "streaming", ![i].status = s,
                   ![i].current_pos = tasks[i].start,
                   ![i].left = BodyOf(s, tasks[i].start,
                                      tasks[i].end + 1).left]
    /\ permits' = permits

\* the task returns the error for status s
worker_rejects(i, s) ==
    /\ tasks' = [tasks EXCEPT ![i].state = "err", ![i].status = s,
                              ![i].error = BadStatus(s)]
    /\ permits' = permits + 1

\* worker_response taking every 2xx status
worker_response_any_success(i) ==
    /\ tasks[i].state = "send"
    /\ \E s \in ServerStatuses(TRUE, tasks[i].start) :
         IF ~is_success(s) THEN worker_rejects(i, s) ELSE worker_accepts(i, s)
    /\ WorkerFrame
    /\ UNCHANGED <<output, pb, gets, rx>>

\* the response arrives; anything but 206 is an error (core.rs:452-459)
worker_response(i) ==
    /\ tasks[i].state = "send"
    /\ \E s \in ServerStatuses(TRUE, tasks[i].start) :
         IF s # 206 THEN worker_rejects(i, s) ELSE worker_accepts(i, s)
    /\ WorkerFrame
    /\ UNCHANGED <<output, pb, gets, rx>>

\* the first byte of the resource the task's next chunk brings
NextByte(t) ==
    BodyOf(t.status, t.start, t.end + 1).boff + (t.current_pos - t.start)

\* a worker who sets the shared position from its own count of bytes
worker_chunk_set_position(i) ==
    /\ unix
    /\ tasks[i].state = "streaming"
    /\ tasks[i].idle < args.idle_timeout
    /\ tasks[i].chunks < MaxChunks
    /\ \E c \in ChunkLens(tasks[i].left) :
         /\ output' = [output EXCEPT
                         !.data = WriteAt(@, tasks[i].current_pos,
                                          Run("res", NextByte(tasks[i]), c))]
         /\ tasks' = [tasks EXCEPT
                        ![i].current_pos = @ + c, ![i].left = @ - c,
                        ![i].idle = 0, ![i].chunks = @ + 1, ![i].since = 0]
         /\ pb' = downloaded + (tasks[i].current_pos - tasks[i].start) + c
         /\ rx' = rx + c
    /\ WorkerFrame
    /\ UNCHANGED <<permits, gets>>

\* Ok(Some(chunk)) in a unix build: write_at(current_pos), pb.inc, advance
\* (core.rs:463-487)
worker_chunk(i) ==
    /\ unix
    /\ tasks[i].state = "streaming"
    /\ tasks[i].idle < args.idle_timeout
    /\ tasks[i].chunks < MaxChunks
    /\ \E c \in ChunkLens(tasks[i].left) :
         /\ output' = [output EXCEPT
                         !.data = WriteAt(@, tasks[i].current_pos,
                                          Run("res", NextByte(tasks[i]), c))]
         /\ tasks' = [tasks EXCEPT
                        ![i].current_pos = @ + c, ![i].left = @ - c,
                        ![i].idle = 0, ![i].chunks = @ + 1, ![i].since = 0]
         /\ pb' = pb + c
         /\ rx' = rx + c
    /\ WorkerFrame
    /\ UNCHANGED <<permits, gets>>

\* Ok(Some(chunk)) in a build that is not unix: the blocking write begins,
\* through the File all workers share: seek(SeekFrom::Start(current_pos))
\* (core.rs:463-479)
worker_seek(i) ==
    /\ ~unix
    /\ tasks[i].state = "streaming"
    /\ tasks[i].idle < args.idle_timeout
    /\ tasks[i].chunks < MaxChunks
    /\ \E c \in ChunkLens(tasks[i].left) :
         /\ tasks' = [tasks EXCEPT
                        ![i].state = "writing", ![i].pending = c,
                        ![i].left = @ - c, ![i].idle = 0,
                        ![i].chunks = @ + 1, ![i].since = 0]
         /\ rx' = rx + c
    /\ cursor' = tasks[i].current_pos
    /\ UNCHANGED <<xvars, bvars, client, plan, unix, resource_len, head, output,
                   runs_left, args, pc, result, total_size, supports_range,
                   downloaded, strategy, stream, permits, join_i, pb, gets,
                   before, last>>

\* the blocking write goes on: write_all(&chunk) puts the chunk where the
\* cursor of the shared File is, then pb.inc, advance (core.rs:480-487)
worker_write(i) ==
    /\ ~unix
    /\ tasks[i].state = "writing"
    /\ LET c == tasks[i].pending
       IN /\ output' = [output EXCEPT
                          !.data = WriteAt(@, cursor,
                                           Run("res", NextByte(tasks[i]), c))]
          /\ cursor' = cursor + c
          /\ tasks' = [tasks EXCEPT
                         ![i].state = "streaming", ![i].pending = 0,
                         ![i].current_pos = @ + c]
          /\ pb' = pb + c
    /\ UNCHANGED <<xvars, bvars, client, plan, unix, resource_len, head, runs_left,
                   args, pc, result, total_size, supports_range, downloaded,
                   strategy, stream, permits, join_i, gets, rx, before, last>>

\* Ok(Some(chunk_result)) with an Err inside (core.rs:464)
worker_chunk_error(i) ==
    /\ tasks[i].state = "streaming"
    /\ tasks[i].idle < args.idle_timeout
    /\ tasks[i].left > 0
    /\ worker_fails(i, Transport(FALSE))
    /\ WorkerFrame
    /\ UNCHANGED <<output, pb, gets, rx>>

\* a chunk arrives and the blocking write fails (core.rs:470-483)
worker_write_error(i) ==
    /\ tasks[i].state = "streaming"
    /\ tasks[i].idle < args.idle_timeout
    /\ tasks[i].chunks < MaxChunks
    /\ \E c \in ChunkLens(tasks[i].left) : rx' = rx + c
    /\ worker_fails(i, IoError)
    /\ WorkerFrame
    /\ UNCHANGED <<output, pb, gets>>

\* Ok(None): the task returns Ok(()) (core.rs:488-497)
worker_end(i) ==
    /\ tasks[i].state = "streaming"
    /\ tasks[i].idle < args.idle_timeout
    /\ tasks[i].left = 0
    /\ tasks' = [tasks EXCEPT ![i].state = "ok", ![i].idle = 0,
                              ![i].chunks = 0, ![i].since = 0]
    /\ permits' = permits + 1
    /\ WorkerFrame
    /\ UNCHANGED <<output, pb, gets, rx>>

\* Ok(None) from a body that brought fewer bytes than the range asked for
\* (a 206 for a narrower range, or a body delimited by the close of the
\* connection): the task returns Ok(()) all the same (core.rs:488-497)
worker_end_early(i) ==
    /\ tasks[i].state = "streaming"
    /\ tasks[i].idle < args.idle_timeout
    /\ tasks[i].left > 0
    /\ tasks' = [tasks EXCEPT ![i].state = "ok", ![i].idle = 0,
                              ![i].chunks = 0, ![i].since = 0]
    /\ permits' = permits + 1
    /\ WorkerFrame
    /\ UNCHANGED <<output, pb, gets, rx>>

\* Err(_): idle_timeout seconds without a chunk (core.rs:491-493)
worker_idle_timeout(i) ==
    /\ tasks[i].state = "streaming"
    /\ tasks[i].idle >= args.idle_timeout
    /\ worker_fails(i, IdleTimeout(args.idle_timeout))
    /\ WorkerFrame
    /\ UNCHANGED <<output, pb, gets, rx>>

\* join_task going on to the next task after a failed one
join_task_skips_errors ==
    /\ pc = "join"
    /\ tasks[join_i].state \in {"ok", "err"}
    /\ join_i' = join_i + 1
    /\ IF join_i + 1 = args.parallel
       THEN result' = Ok /\ pc' = "done"
       ELSE result' = result /\ pc' = pc
    /\ UNCHANGED <<xvars, bvars, client, plan, unix, cursor, last, resource_len, head, output, runs_left, args,
                   total_size, supports_range, downloaded, strategy, stream,
                   tasks, permits, pb, gets, rx, before>>

\* join_task that returns the error of whichever task has failed, without
\* waiting for the tasks before it
join_task_any_failure ==
    /\ pc = "join"
    /\ \/ /\ \E k \in Workers :
               /\ tasks[k].state = "err"
               /\ result' = tasks[k].error
               /\ join_i' = k
          /\ pc' = "done"
       \/ /\ tasks[join_i].state = "ok"
          /\ join_i' = join_i + 1
          /\ IF join_i + 1 = args.parallel
             THEN result' = Ok /\ pc' = "done"
             ELSE result' = result /\ pc' = pc
    /\ UNCHANGED <<xvars, bvars, client, plan, unix, cursor, last, resource_len, head, output, runs_left, args, total_size,
                   supports_range, downloaded, strategy, stream, tasks,
                   permits, pb, gets, rx, before>>

\* join_task that aborts the other tasks before it returns an error
join_task_cancels ==
    /\ pc = "join"
    /\ tasks[join_i].state \in {"ok", "err"}
    /\ IF tasks[join_i].state = "err"
       THEN /\ result' = tasks[join_i].error
            /\ pc' = "done"
            /\ join_i' = join_i
            /\ tasks' = [i \in Workers |->
                           IF tasks[i].state \in {"ok", "err"} THEN tasks[i]
                           ELSE [tasks[i] EXCEPT !.state = "aborted"]]
       ELSE /\ join_i' = join_i + 1
            /\ tasks' = tasks
            /\ IF join_i + 1 = args.parallel
               THEN result' = Ok /\ pc' = "done"
               ELSE result' = result /\ pc' = pc
    /\ UNCHANGED <<xvars, bvars, client, plan, unix, cursor, last, resource_len, head, output, runs_left, args, total_size,
                   supports_range, downloaded, strategy, stream,
                   permits, pb, gets, rx, before>>

\* the join loop: task.await of task join_i (core.rs:503-519), and the
\* return after the last task (core.rs:521-539)
join_task ==
    /\ pc = "join"
    /\ tasks[join_i].state \in {"ok", "err"}
    /\ IF tasks[join_i].state = "err"
       THEN /\ result' = tasks[join_i].error
            /\ pc' = "done"
            /\ join_i' = join_i
       ELSE /\ join_i' = join_i + 1
            /\ IF join_i + 1 = args.parallel
               THEN result' = Ok /\ pc' = "done"
               ELSE result' = result /\ pc' = pc
    /\ UNCHANGED <<xvars, bvars, client, plan, unix, cursor, last, resource_len, head, output, runs_left, args, total_size,
                   supports_range, downloaded, strategy, stream, tasks,
                   permits, pb, gets, rx, before>>

\* ----------------------------------------------------------------------- time
Waiting ==
    {i \in Workers : tasks[i].state = "streaming"}

\* one second passes without a chunk on any open body
Tick ==
    /\ pc = "single_stream" \/ Waiting # {}
    /\ pc = "single_stream" => stream.idle < args.idle_timeout
    /\ \A i \in Waiting : tasks[i].idle < args.idle_timeout
    /\ stream' = IF pc = "single_stream"
                 THEN [stream EXCEPT !.idle = @ + 1, !.since = @ + 1,
                                     !.elapsed = @ + 1]
                 ELSE stream
    /\ tasks' = [i \in Workers |->
                   IF i \in Waiting
                   THEN [tasks[i] EXCEPT !.idle = @ + 1, !.since = @ + 1]
                   ELSE tasks[i]]
    /\ UNCHANGED <<xvars, bvars, client, plan, unix, cursor, last, resource_len, head, output, runs_left, args, pc, result, total_size,
                   supports_range, downloaded, strategy, permits, join_i,
                   pb, gets, rx, before>>

Next ==
    \/ download_file_head_fails
    \/ download_file
    \/ single_short_circuit
    \/ single_request
    \/ single_send_error
    \/ single_response
    \/ single_chunk
    \/ single_chunk_error
    \/ single_write_error
    \/ single_end
    \/ single_idle_timeout
    \/ download_parallel
    \/ \E i \in Workers : worker_acquire(i)
    \/ \E i \in Workers : worker_send_error(i)
    \/ \E i \in Workers : worker_response(i)
    \/ \E i \in Workers : worker_chunk(i)
    \/ \E i \in Workers : worker_chunk_error(i)
    \/ \E i \in Workers : worker_write_error(i)
    \/ \E i \in Workers : worker_end(i)
    \/ \E i \in Workers : worker_idle_timeout(i)
    \/ join_task
    \/ Tick

Spec == Init /\ [][Next]_vars

\* a single invocation
SpecRun == InitRun /\ [][Next]_vars

\* a single invocation, in a build for unix or for another target
InitTargets ==
    /\ resource_len \in ResourceSizes
    /\ head \in ServerHeads(resource_len)
    /\ output \in {Absent, OldFile}
    /\ NotStarted(1)
    /\ unix \in BOOLEAN
    /\ plan = NoPlan
    /\ BenchAt("none")
    /\ client = NoClient
    /\ ExtrasIdle

NextTargets ==
    \/ Next
    \/ \E i \in Workers : worker_seek(i)
    \/ \E i \in Workers : worker_write(i)

SpecTargets == InitTargets /\ [][NextTargets]_vars

\* a single invocation against a server whose 206 bodies may end early
NextShort ==
    \/ Next
    \/ \E i \in Workers : worker_end_early(i)

SpecShort == InitRun /\ [][NextShort]_vars

\* ----------------------------------------------- one download, any HEAD answer
\* Content-Length values a server may send for a resource of n bytes: the
\* plain digits, signed ones, ones with a leading zero, negative ones, a word,
\* an empty value, digits before a blank, and a byte that is not ASCII
LengthTexts(n) ==
    {to_decimal(n), <<43>> \o to_decimal(n), <<48>> \o to_decimal(n),
     <<45>> \o to_decimal(n), <<97, 98>>, <<>>, to_decimal(n) \o <<32>>, <<233>>}

\* Accept-Ranges values: bytes, Bytes, none, an empty value, a byte that is
\* not ASCII
RangeTexts == {BytesText, <<66, 121, 116, 101, 115>>, <<110, 111, 110, 101>>,
               <<>>, <<233>>}

ProbeHeads(n) ==
    [content_length : {NoHeader} \cup {Header(t) : t \in LengthTexts(n)},
     accept_ranges : {NoHeader} \cup {Header(t) : t \in RangeTexts}]

InitProbe ==
    /\ resource_len \in {SmallSize, PARALLEL_DOWNLOAD_THRESHOLD + 3}
    /\ head \in ProbeHeads(resource_len)
    /\ output \in {Absent, OldFile}
    /\ NotStarted(1)
    /\ unix = TRUE
    /\ plan = NoPlan
    /\ BenchAt("none")
    /\ client = NoClient
    /\ ExtrasIdle

SpecProbe == InitProbe /\ [][Next]_vars

\* ------------------------------------------- strategy and segments as functions
\* no download runs; the arguments are drawn from PlanInputs
DownloadIdle ==
    /\ resource_len = SmallSize
    /\ head = [content_length |-> Header(to_decimal(SmallSize)),
               accept_ranges |-> Header(BytesText)]
    /\ output = Absent
    /\ runs_left = 0
    /\ args = NoArgs
    /\ pc = "idle"
    /\ result = NoResult
    /\ total_size = 0
    /\ supports_range = FALSE
    /\ downloaded = 0
    /\ strategy = "none"
    /\ stream = NoStream
    /\ tasks = <<>>
    /\ permits = 0
    /\ join_i = 0
    /\ pb = 0
    /\ gets = 0
    /\ rx = 0
    /\ before = Absent
    /\ last = NoLast
    /\ unix = TRUE
    /\ cursor = 0

PlanSizes ==
    (0 .. MaxTotal) \cup {1000000, PARALLEL_DOWNLOAD_THRESHOLD,
                          PARALLEL_DOWNLOAD_THRESHOLD + 1, 10000003}

PlanInputs ==
    [state : {"input"}, supports_range : BOOLEAN, total_size : PlanSizes,
     parallel : 0 .. MaxSegments, downloaded : PlanSizes]

InitPlan ==
    /\ DownloadIdle
    /\ plan \in PlanInputs
    /\ BenchAt("none")
    /\ client = NoClient
    /\ ExtrasIdle

\* download_file's choice for the arguments (core.rs:191-215)
plan_download_file ==
    /\ plan.state = "input"
    /\ plan' = [plan EXCEPT !.state = "selected"] @@
               [use_parallel |->
                  use_parallel(plan.supports_range, plan.total_size,
                               plan.parallel, plan.downloaded)]
    /\ UNCHANGED <<dvars, bvars, client, xvars>>

\* download_parallel's partition for the arguments (core.rs:408-431)
plan_download_parallel ==
    /\ plan.state = "selected"
    /\ plan.downloaded < plan.total_size
    /\ plan.parallel >= 1
    /\ plan' = [plan EXCEPT !.state = "segmented"] @@
               [chunk_size |-> chunk_size(plan.total_size, plan.downloaded,
                                          plan.parallel),
                segments |-> segments(plan.total_size, plan.downloaded,
                                      plan.parallel)]
    /\ UNCHANGED <<dvars, bvars, client, xvars>>

NextPlan == plan_download_file \/ plan_download_parallel

SpecPlan == InitPlan /\ [][NextPlan]_vars

\* ---------------------------------------------------------------- benchmark_url
BTasks == DOMAIN btasks

\* the variables no benchmark step changes
BenchFrame == UNCHANGED <<dvars, plan, client, xvars>>

\* core.rs:562-596: create the Semaphore and the stats, spawn the tasks
benchmark_url ==
    /\ bench.pc = "idle"
    /\ \E requests \in 0 .. MaxRequests, concurrency \in 0 .. MaxConcurrency :
         /\ bench' = [pc |-> "join", requests |-> requests,
                      concurrency |-> concurrency, join_i |-> 0]
         /\ btasks' = [i \in 0 .. requests - 1 |->
                         [state |-> "acquire", code |-> 0, ms |-> 0]]
         /\ semaphore' = concurrency
    /\ stats' = NewStats
    /\ report' = NoReport
    /\ BenchFrame

\* bench_acquire that does not wait for a permit
bench_acquire_no_wait(i) ==
    /\ btasks[i].state = "acquire"
    /\ semaphore' = semaphore - 1
    /\ btasks' = [btasks EXCEPT ![i].state = "send"]
    /\ UNCHANGED <<bench, stats, report>>
    /\ BenchFrame

\* semaphore.acquire() returns and the GET goes out (core.rs:575-578)
bench_acquire(i) ==
    /\ btasks[i].state = "acquire"
    /\ semaphore > 0
    /\ semaphore' = semaphore - 1
    /\ btasks' = [btasks EXCEPT ![i].state = "send"]
    /\ UNCHANGED <<bench, stats, report>>
    /\ BenchFrame

\* count_request taking only 2xx for a success
count_request_2xx(st, code) ==
    IF code # 0 /\ 200 <= code /\ code < 300
    THEN [st EXCEPT !.successful_requests = @ + 1]
    ELSE [st EXCEPT !.failed_requests = @ + 1]

\* fetch_add on the counter for a status, 0 for none (core.rs:645-653)
count_request(st, code) ==
    IF code # 0 /\ 200 <= code /\ code < 400
    THEN [st EXCEPT !.successful_requests = @ + 1]
    ELSE [st EXCEPT !.failed_requests = @ + 1]

\* count_code by a writer that puts back the count it read before another
\* task's increment: the entry never gets past 1
count_code_lost_update(codes, code) ==
    IF code \in DOMAIN codes
    THEN [codes EXCEPT ![code] = 1]
    ELSE codes @@ (code :> 1)

\* *status_codes.entry(code).or_insert(0) += 1  (core.rs:643)
count_code(codes, code) ==
    IF code \in DOMAIN codes
    THEN [codes EXCEPT ![code] = @ + 1]
    ELSE codes @@ (code :> 1)

\* the request ends; record_request pushes the latency, and for a
\* transport error counts the failure and returns (core.rs:578-586, 639-653)
bench_response(i) ==
    /\ btasks[i].state = "send"
    /\ \E code \in BenchOutcomes, ms \in Latencies :
         LET pushed == [stats EXCEPT !.response_times = Append(@, ms)]
         IN IF code = 0
            THEN /\ stats' = count_request(pushed, 0)
                 /\ btasks' = [btasks EXCEPT ![i].state = "done"]
                 /\ semaphore' = semaphore + 1
            ELSE /\ stats' = pushed
                 /\ btasks' = [btasks EXCEPT ![i] =
                                 [state |-> "record", code |-> code,
                                  ms |-> ms]]
                 /\ semaphore' = semaphore
    /\ UNCHANGED <<bench, report>>
    /\ BenchFrame

\* bench_record by a task that keeps its permit when it ends
bench_record_keeps_permit(i) ==
    /\ btasks[i].state = "record"
    /\ stats' = count_request(
                   [stats EXCEPT
                      !.status_codes = count_code(@, btasks[i].code)],
                   btasks[i].code)
    /\ btasks' = [btasks EXCEPT ![i].state = "done", ![i].ms = 0]
    /\ semaphore' = semaphore
    /\ UNCHANGED <<bench, report>>
    /\ BenchFrame

\* record_request counts the status; the task ends and drops its permit
\* (core.rs:642-650, 588)
bench_record(i) ==
    /\ btasks[i].state = "record"
    /\ stats' = count_request(
                   [stats EXCEPT
                      !.status_codes = count_code(@, btasks[i].code)],
                   btasks[i].code)
    /\ btasks' = [btasks EXCEPT ![i].state = "done", ![i].ms = 0]
    /\ semaphore' = semaphore + 1
    /\ UNCHANGED <<bench, report>>
    /\ BenchFrame

\* bench_join returning at the first request that failed, without a report
bench_join_aborts ==
    /\ bench.pc = "join"
    /\ bench.join_i < bench.requests
    /\ btasks[bench.join_i].state = "done"
    /\ bench' = IF btasks[bench.join_i].code \in 200 .. 399
                THEN [bench EXCEPT !.join_i = @ + 1]
                ELSE [bench EXCEPT !.pc = "done"]
    /\ UNCHANGED <<btasks, semaphore, stats, report>>
    /\ BenchFrame

\* bench_join that does not wait for the task to finish
bench_join_no_wait ==
    /\ bench.pc = "join"
    /\ bench.join_i < bench.requests
    /\ bench' = [bench EXCEPT !.join_i = @ + 1]
    /\ UNCHANGED <<btasks, semaphore, stats, report>>
    /\ BenchFrame

\* task.await of the next task in the join loop (core.rs:598-602); a task
\* returns Err only when acquire() fails, which an open Semaphore never does
bench_join ==
    /\ bench.pc = "join"
    /\ bench.join_i < bench.requests
    /\ btasks[bench.join_i].state = "done"
    /\ bench' = [bench EXCEPT !.join_i = @ + 1]
    /\ UNCHANGED <<btasks, semaphore, stats, report>>
    /\ BenchFrame

\* percentile by nearest rank: the index is ceil(len * p) - 1
percentile_nearest_rank(sorted_data, num) ==
    IF sorted_data = <<>> THEN 0
    ELSE sorted_data[Min((Len(sorted_data) * num + 99) \div 100 - 1,
                         Len(sorted_data) - 1) + 1]

\* core.rs:701-708, the index (len * p) as usize with p = num / 100; for
\* p = 0.5, 0.95, 0.99 the f64 product truncates to the same index as the
\* integer quotient
percentile(sorted_data, num) ==
    IF sorted_data = <<>> THEN 0
    ELSE sorted_data[Min((Len(sorted_data) * num) \div 100,
                         Len(sorted_data) - 1) + 1]

RECURSIVE Sum(_)
Sum(q) == IF q = <<>> THEN 0 ELSE Head(q) + Sum(Tail(q))

\* "{:.1}" of (count as f64 / total_requests as f64) * 100.0 (core.rs:691-696),
\* in tenths of a percent: the nearest tenth (no value drawn here lies
\* halfway between two tenths)
percent(count, total_requests) ==
    (2000 * count + total_requests) \div (2 * total_requests)

\* print_results that takes the samples as they were pushed, unsorted
print_results_unsorted ==
    /\ bench.pc = "join"
    /\ bench.join_i = bench.requests
    /\ LET sorted_times == stats.response_times
           n == Len(sorted_times)
       IN report' =
            [printed |-> TRUE,
             total_requests |-> bench.requests,
             min_time |-> IF n = 0 THEN 0 ELSE sorted_times[1],
             max_time |-> IF n = 0 THEN 0 ELSE sorted_times[n],
             avg_time |-> IF n = 0 THEN 0 ELSE Sum(sorted_times) \div n,
             p50 |-> percentile(sorted_times, 50),
             p95 |-> percentile(sorted_times, 95),
             p99 |-> percentile(sorted_times, 99),
             successful_requests |-> stats.successful_requests,
             failed_requests |-> stats.failed_requests,
             status_codes |-> stats.status_codes,
             percent |-> [s \in DOMAIN stats.status_codes |->
                            percent(stats.status_codes[s], bench.requests)]]
    /\ bench' = [bench EXCEPT !.pc = "done"]
    /\ UNCHANGED <<btasks, semaphore, stats>>
    /\ BenchFrame

\* core.rs:604-615, 656-698: all tasks are joined; print_results, then
\* benchmark_url returns Ok(())
print_results ==
    /\ bench.pc = "join"
    /\ bench.join_i = bench.requests
    /\ LET sorted_times == SortSeq(stats.response_times,
                                   LAMBDA x, y : x < y)
           n == Len(sorted_times)
       IN report' =
            [printed |-> TRUE,
             total_requests |-> bench.requests,
             min_time |-> IF n = 0 THEN 0 ELSE sorted_times[1],
             max_time |-> IF n = 0 THEN 0 ELSE sorted_times[n],
             avg_time |-> IF n = 0 THEN 0 ELSE Sum(sorted_times) \div n,
             p50 |-> percentile(sorted_times, 50),
             p95 |-> percentile(sorted_times, 95),
             p99 |-> percentile(sorted_times, 99),
             successful_requests |-> stats.successful_requests,
             failed_requests |-> stats.failed_requests,
             status_codes |-> stats.status_codes,
             percent |-> [s \in DOMAIN stats.status_codes |->
                            percent(stats.status_codes[s], bench.requests)]]
    /\ bench' = [bench EXCEPT !.pc = "done"]
    /\ UNCHANGED <<btasks, semaphore, stats>>
    /\ BenchFrame

NextBench ==
    \/ benchmark_url
    \/ \E i \in BTasks : bench_acquire(i)
    \/ \E i \in BTasks : bench_response(i)
    \/ \E i \in BTasks : bench_record(i)
    \/ bench_join
    \/ print_results

InitBench ==
    /\ DownloadIdle
    /\ plan = NoPlan
    /\ BenchAt("idle")
    /\ client = NoClient
    /\ ExtrasIdle

SpecBench == InitBench /\ [][NextBench]_vars

\* bench_response against a server whose answer, 200 or none, takes 10 ms
bench_response_plain(i) ==
    /\ bench_response(i)
    /\ btasks'[i].code \in {0, 200}
    /\ stats'.response_times[Len(stats'.response_times)] = 10

NextAdmit ==
    \/ benchmark_url
    \/ \E i \in BTasks : bench_acquire(i)
    \/ \E i \in BTasks : bench_response_plain(i)
    \/ \E i \in BTasks : bench_record(i)
    \/ bench_join
    \/ print_results

\* the runtime polls every spawned task that can go on, and every request
\* that is out ends, with a response or with an error
BenchFairness ==
    \A i \in 0 .. MaxRequests - 1 :
        /\ WF_vars(i \in BTasks /\ bench_acquire(i))
        /\ WF_vars(i \in BTasks /\ bench_response_plain(i))
        /\ WF_vars(i \in BTasks /\ bench_record(i))

\* the benchmark against that server, under a fair runtime
SpecAdmit == InitBench /\ [][NextAdmit]_vars /\ BenchFairness

\* ------------------------------------------------ print_results on given samples
\* latencies recorded (ms)
SampleValues == {10, 20, 30, 40, 50}

SampleSeqs == UNION {[1 .. n -> SampleValues] : n \in 0 .. MaxSamples}

\* benchmark_url after the join loop: every request answered 200, the
\* latencies pushed in the order the tasks recorded them
InitStats ==
    /\ DownloadIdle
    /\ plan = NoPlan
    /\ \E q \in SampleSeqs :
         LET n == Len(q)
         IN /\ bench = [pc |-> "join", requests |-> n, concurrency |-> 1,
                       join_i |-> n]
            /\ btasks = [i \in 0 .. n - 1 |->
                           [state |-> "done", code |-> 200, ms |-> 0]]
            /\ stats = [response_times |-> q,
                        status_codes |-> IF n = 0 THEN <<>> ELSE 200 :> n,
                        successful_requests |-> n, failed_requests |-> 0]
    /\ semaphore = 1
    /\ report = NoReport
    /\ client = NoClient
    /\ ExtrasIdle

NextStats == print_results

SpecStats == InitStats /\ [][NextStats]_vars

\* ------------------------------------------------------- build_client alone
InitClient ==
    /\ DownloadIdle
    /\ plan = NoPlan
    /\ BenchAt("none")
    /\ client \in ClientArgs
    /\ ExtrasIdle

NextClient == build_client \/ build_client_header \/ build_client_end

SpecClient == InitClient /\ [][NextClient]_vars

\* one invocation of download_file, or one of benchmark_url
InitAll == InitRun \/ InitBench

NextAll == Next \/ NextBench

SpecAll == InitAll /\ [][NextAll]_vars

\* ---------------------------------------------- download with the cached options
\* the command lines of `surf download URL OUTPUT`: an option is typed with
\* a value or left out, a flag is typed or left out (cli.rs:18-40, 95-118)
CommandLines ==
    [parallel : {None, Some(4), Some(8)},
     continue_download : BOOLEAN,
     idle_timeout : {None, Some(30), Some(60)},
     http3 : BOOLEAN,
     no_color : BOOLEAN,
     use_cache : BOOLEAN,
     no_save : BOOLEAN,
     profile : {None, Some("work")}]

\* clap: an option that was not typed has its default_value
Commands_Download(typed) ==
    [parallel |-> unwrap_or(typed.parallel, 4),
     continue_download |-> typed.continue_download,
     idle_timeout |-> unwrap_or(typed.idle_timeout, 30),
     http3 |-> typed.http3]

\* CachedConfig::is_empty
is_empty(self) == \A f \in DOMAIN self : ~self[f].some

\* CachedConfig::detect_conflicts_download: the options in conflict
detect_conflicts_download(self, provided) ==
    {f \in {"parallel", "continue_download", "idle_timeout", "http3"} :
        /\ self[f].some
        /\ provided[f].some
        /\ self[f].v # provided[f].v}

\* CachedConfig::merge_download_config
merge_download_config(self, provided) ==
    [parallel |-> unwrap_or(or(provided.parallel, self.parallel), 4),
     continue_download |->
         unwrap_or(or(provided.continue_download, self.continue_download),
                   FALSE),
     idle_timeout |->
         unwrap_or(or(provided.idle_timeout, self.idle_timeout), 30),
     http3 |-> unwrap_or(or(provided.http3, self.http3), FALSE)]

\* CachedConfig::update_with_download
update_with_download(self, a, no_color, profile) ==
    [self EXCEPT
       !.parallel = Some(a.parallel),
       !.continue_download = Some(a.continue_download),
       !.idle_timeout = Some(a.idle_timeout),
       !.http3 = Some(a.http3),
       !.no_color = Some(no_color),
       !.profile = profile]

CacheFrame == UNCHANGED <<dvars, plan, bvars, client, history, added, recent, game>>

\* handle_download_with_cache up to the call of download_file: the cache is
\* loaded; with -x an empty cache or a conflict returns Ok(()), otherwise
\* the options are merged and, when one was provided, the cache is updated
\* and saved (saved tells whether save_to_file succeeded)
handle_download_with_cache ==
    /\ cmd.pc = "none"
    /\ \E typed \in CommandLines, saved \in BOOLEAN :
         LET a == Commands_Download(typed)
             cached_config == cache
             begun == [NoCmd EXCEPT !.typed = typed, !.loaded = cached_config]
         IN IF typed.use_cache
            THEN IF is_empty(cached_config)
                 THEN /\ cmd' = [begun EXCEPT !.pc = "done", !.result = Ok]
                      /\ UNCHANGED cache
                 ELSE LET provided ==
                              [parallel |->
                                   IF a.parallel # 4
                                   THEN Some(a.parallel) ELSE None,
                               continue_download |->
                                   IF a.continue_download
                                   THEN Some(a.continue_download) ELSE None,
                               idle_timeout |->
                                   IF a.idle_timeout # 30
                                   THEN Some(a.idle_timeout) ELSE None,
                               http3 |->
                                   IF a.http3 THEN Some(a.http3) ELSE None]
                          conflicts ==
                              detect_conflicts_download(cached_config, provided)
                          merged ==
                              merge_download_config(cached_config, provided)
                          has_new_params ==
                              \E f \in DOMAIN provided : provided[f].some
                      IN IF conflicts # {}
                         THEN /\ cmd' = [begun EXCEPT
                                           !.pc = "done", !.result = Ok,
                                           !.conflicts = conflicts]
                              /\ UNCHANGED cache
                         ELSE IF has_new_params /\ ~saved
                         THEN /\ cmd' = [begun EXCEPT
                                           !.pc = "done", !.result = IoError]
                              /\ UNCHANGED cache
                         ELSE /\ cache' =
                                   IF has_new_params
                                   THEN update_with_download(
                                            cached_config, merged,
                                            typed.no_color, typed.profile)
                                   ELSE cache
                              /\ cmd' = [begun EXCEPT
                                           !.pc = "download_file",
                                           !.passed = merged]
            ELSE /\ cmd' = [begun EXCEPT
                              !.pc = "download_file", !.passed = a]
                 /\ UNCHANGED cache
    /\ CacheFrame

\* download_file returns r; without -x, when it is Ok and --no-save is not
\* set, the cache is updated with the arguments and saved
download_file_returns ==
    /\ cmd.pc = "download_file"
    /\ \E r \in {Ok, Transport(FALSE)}, saved \in BOOLEAN :
         IF ~cmd.typed.use_cache /\ ~cmd.typed.no_save /\ r = Ok
         THEN IF saved
              THEN /\ cache' = update_with_download(
                                   cmd.loaded, Commands_Download(cmd.typed),
                                   cmd.typed.no_color, cmd.typed.profile)
                   /\ cmd' = [cmd EXCEPT !.pc = "done", !.result = r]
              ELSE /\ cmd' = [cmd EXCEPT !.pc = "done", !.result = IoError]
                   /\ UNCHANGED cache
         ELSE /\ cmd' = [cmd EXCEPT !.pc = "done", !.result = r]
              /\ UNCHANGED cache
    /\ CacheFrame

\* the process ends; the next command starts from the file it left
command_exit ==
    /\ cmd.pc = "done"
    /\ cmd' = NoCmd
    /\ UNCHANGED cache
    /\ CacheFrame

\* no cache file, or the file a bench command left (CachedConfig::from_bench)
InitCache ==
    /\ DownloadIdle
    /\ plan = NoPlan
    /\ BenchAt("none")
    /\ client = NoClient
    /\ cache \in {DefaultCachedConfig}
                 \cup {[DefaultCachedConfig EXCEPT
                           !.requests = Some(100), !.http3 = Some(h),
                           !.no_color = Some(n)] : h, n \in BOOLEAN}
    /\ cmd = NoCmd
    /\ history = DefaultHistory
    /\ added = <<>>
    /\ recent = NoRecent
    /\ game = [pc |-> "none"]

NextCache ==
    \/ handle_download_with_cache
    \/ download_file_returns
    \/ command_exit

SpecCache == InitCache /\ [][NextCache]_vars

\* ------------------------------------------------------------ request history
MaxEntries == 3
MaxAdded == 5

HistoryFrame == UNCHANGED <<dvars, plan, bvars, client, cache, cmd, game>>

\* the newest entry is dropped in place of the oldest ones
add_entry_truncate ==
    /\ Len(added) < MaxAdded
    /\ LET entry == Len(added) + 1
           pushed == Append(history.entries, entry)
       IN /\ history' = [history EXCEPT
                           !.entries =
                               IF Len(pushed) > history.max_entries
                               THEN SubSeq(pushed, 1, history.max_entries)
                               ELSE pushed]
          /\ added' = Append(added, entry)
    /\ UNCHANGED recent
    /\ HistoryFrame

\* RequestHistory::add_entry: push, then drain the oldest entries beyond
\* max_entries; entries are numbered in the order they are made
add_entry ==
    /\ Len(added) < MaxAdded
    /\ LET entry == Len(added) + 1
           pushed == Append(history.entries, entry)
       IN /\ history' = [history EXCEPT
                           !.entries =
                               IF Len(pushed) > history.max_entries
                               THEN SubSeq(pushed,
                                           Len(pushed) - history.max_entries
                                               + 1,
                                           Len(pushed))
                               ELSE pushed]
          /\ added' = Append(added, entry)
    /\ UNCHANGED recent
    /\ HistoryFrame

\* RequestHistory::get_recent(limit): the slice from start; of is the
\* entries at the time of the call
get_recent ==
    /\ \E limit \in 0 .. MaxEntries + 1 :
         LET start == IF Len(history.entries) > limit
                      THEN Len(history.entries) - limit
                      ELSE 0
         IN recent' = [called |-> TRUE, limit |-> limit,
                       of |-> history.entries,
                       entries |-> SubSeq(history.entries, start + 1,
                                          Len(history.entries))]
    /\ UNCHANGED <<history, added>>
    /\ HistoryFrame

\* a history as loaded from its file, with at most max_entries entries
InitHistory ==
    /\ DownloadIdle
    /\ plan = NoPlan
    /\ BenchAt("none")
    /\ client = NoClient
    /\ cache = DefaultCachedConfig
    /\ cmd = NoCmd
    /\ \E max_entries \in 0 .. MaxEntries, n \in 0 .. MaxEntries :
         /\ n <= max_entries
         /\ history = [entries |-> [i \in 1 .. n |-> i],
                       max_entries |-> max_entries]
         /\ added = [i \in 1 .. n |-> i]
    /\ recent = NoRecent
    /\ game = [pc |-> "none"]

NextHistory == add_entry \/ get_recent

SpecHistory == InitHistory /\ [][NextHistory]_vars

\* ------------------------------------------------------------------ snake game
\* the longest snake the model lets grow
MaxBody == 4

GameFrame ==
    UNCHANGED <<dvars, plan, bvars, client, cache, cmd, history, added, recent>>

\* Game::new, Game::reset, with the snake of Snake::new; a Position is
\* [x, y]; used is the direction the last call of move_forward used, prev
\* the direction of the move before that call
Game_new(width, height) ==
    LET start_x == width \div 2
        start_y == height \div 2
    IN [pc |-> "loop",
        snake |-> [body |-> <<[x |-> start_x, y |-> start_y],
                              [x |-> start_x - 1, y |-> start_y],
                              [x |-> start_x - 2, y |-> start_y]>>,
                   direction |-> "Right",
                   growing |-> FALSE],
        score |-> 0, game_over |-> FALSE, paused |-> FALSE,
        width |-> width, height |-> height, used |-> "none", prev |-> "none"]

\* a direction key is read: Snake::change_direction
change_direction(new_direction) ==
    /\ game.pc = "loop"
    /\ LET valid == <<game.snake.direction, new_direction>> \notin
                        {<<"Up", "Down">>, <<"Down", "Up">>,
                         <<"Left", "Right">>, <<"Right", "Left">>}
       IN game' = IF valid
                  THEN [game EXCEPT !.snake.direction = new_direction]
                  ELSE game
    /\ GameFrame

\* the cell move_forward moves the head to
new_head(snake, width, height) ==
    LET at == snake.body[1]
    IN CASE snake.direction = "Up" ->
              [at EXCEPT !.y = IF at.y = 0 THEN height - 1 ELSE at.y - 1]
         [] snake.direction = "Down" ->
              [at EXCEPT !.y = (at.y + 1) % height]
         [] snake.direction = "Left" ->
              [at EXCEPT !.x = IF at.x = 0 THEN width - 1 ELSE at.x - 1]
         [] snake.direction = "Right" ->
              [at EXCEPT !.x = (at.x + 1) % width]

\* the snake after a move_forward that returned true
move_forward(snake, width, height) ==
    LET inserted == <<new_head(snake, width, height)>> \o snake.body
    IN [snake EXCEPT
          !.body = IF ~snake.growing
                   THEN SubSeq(inserted, 1, Len(inserted) - 1)
                   ELSE inserted,
          !.growing = FALSE]

\* a tick: Game::update. Nothing when the game is over or paused;
\* move_forward returns false when the new head is a cell of the body, and
\* the game is over; otherwise the snake moves and, when its head is on a
\* food (foods spawn at random cells: ate), it will grow and scores
update ==
    /\ game.pc = "loop"
    /\ IF game.game_over \/ game.paused
       THEN game' = game
       ELSE LET snake == game.snake
                called == [game EXCEPT !.prev = game.used,
                                       !.used = snake.direction]
            IN IF \E i \in 1 .. Len(snake.body) :
                      snake.body[i] = new_head(snake, game.width, game.height)
               THEN game' = [called EXCEPT !.game_over = TRUE]
               ELSE \E ate \in BOOLEAN :
                      /\ ate => Len(snake.body) < MaxBody
                      /\ game' = [called EXCEPT
                                    !.snake =
                                        [move_forward(snake, game.width,
                                                      game.height)
                                           EXCEPT !.growing = ate],
                                    !.score = IF ate THEN @ + 10 ELSE @]
    /\ GameFrame

\* the space key: Game::toggle_pause
toggle_pause ==
    /\ game.pc = "loop"
    /\ game' = IF ~game.game_over
               THEN [game EXCEPT !.paused = ~game.paused]
               ELSE game
    /\ GameFrame

\* the r key when the game is over: Game::reset
reset ==
    /\ game.pc = "loop"
    /\ game.game_over
    /\ game' = Game_new(game.width, game.height)
    /\ GameFrame

\* q or Esc: the loop breaks
quit ==
    /\ game.pc = "loop"
    /\ game' = [game EXCEPT !.pc = "quit"]
    /\ GameFrame

\* run_game in the smallest terminal: the game area is 20 by 10
InitGame ==
    /\ DownloadIdle
    /\ plan = NoPlan
    /\ BenchAt("none")
    /\ client = NoClient
    /\ cache = DefaultCachedConfig
    /\ cmd = NoCmd
    /\ history = DefaultHistory
    /\ added = <<>>
    /\ recent = NoRecent
    /\ game = Game_new(20, 10)

NextGame ==
    \/ \E d \in {"Up", "Down", "Left", "Right"} : change_direction(d)
    \/ update
    \/ toggle_pause
    \/ reset
    \/ quit

SpecGame == InitGame /\ [][NextGame]_vars

\* ------------------------------------------------------------------- claims
Complete == output.data = ResBytes(0, resource_len)
Succeeded == pc = "done" /\ result = Ok
Failed == pc = "done" /\ result # Ok

\* f is the first FileLen(f) bytes of the resource
IsPrefix(f) == f = ResBytes(0, FileLen(f))

\* the single-stream response, if any, had the status the request asks for
ServedProperly ==
    "status" \in DOMAIN stream =>
        stream.status = IF stream.range_sent THEN 206 ELSE 200

\* the invocation before this one ended with an error
Interrupted == last.result.kind \notin {"none", "Ok"}

\* C1: when a download was interrupted with exactly the first B bytes of
\* the resource in the output file and is invoked again with continue=true,
\* then once that invocation has succeeded the output file is the resource,
\* byte for byte, whichever strategy was selected.
C1_ResumeIdempotent ==
    (/\ Succeeded
     /\ args.continue_download
     /\ Interrupted
     /\ IsPrefix(before.data)
     /\ ServedProperly) => Complete

\* no byte of f is left from a file that was at the path before
NoOld(f) == \A k \in DOMAIN f : f[k].k # "old"

\* C2: after an attempt that ended with an idle timeout or a network error,
\* an invocation with continue=true on the same path reports success only
\* with the complete resource in the output file.
C2_SafelyResumable ==
    (/\ Succeeded
     /\ args.continue_download
     /\ last.result.kind \in {"IdleTimeout", "Transport"}
     /\ NoOld(before.data)
     /\ ServedProperly) => Complete

\* C3: with total_size > 0 and resume_offset >= total_size the invocation
\* issues no GET, receives and writes nothing, leaves the output file as it
\* found it, and returns success.
C3_ShortCircuit ==
    (/\ strategy # "none"
     /\ total_size > 0
     /\ downloaded >= total_size) =>
        /\ gets = 0
        /\ rx = 0
        /\ stream = NoStream
        /\ tasks = <<>>
        /\ output.data = before.data
        /\ pc = "done" => result = Ok

C3_Witness ==
    /\ Succeeded
    /\ total_size > 0
    /\ downloaded > total_size
    /\ output.exists
    /\ FileLen(output.data) = downloaded

\* tasks that hold a permit: benchmark tasks from the acquire to the end
\* of record_request, download workers from the acquire to their return
BenchHolders == {i \in BTasks : btasks[i].state \in {"send", "record"}}
BenchInFlight == {i \in BTasks : btasks[i].state = "send"}
WorkerHolders == {i \in Workers : tasks[i].state \in {"send", "streaming"}}

\* C5: the tasks holding a permit are never more than the capacity of the
\* Semaphore: in benchmark_url at most concurrency tasks, and so at most
\* concurrency GETs in flight; in download_parallel at most parallel workers
\* past the acquire. No Semaphore ever has a negative number of permits.
C5_LimiterBound ==
    /\ Cardinality(BenchHolders) <= bench.concurrency
    /\ Cardinality(BenchInFlight) <= bench.concurrency
    /\ semaphore >= 0
    /\ Cardinality(WorkerHolders) <= args.parallel
    /\ permits >= 0

\* capacity 1, three requests: one in flight, one done, one kept waiting
C5_Witness ==
    /\ bench.concurrency = 1
    /\ bench.requests = 3
    /\ btasks[0].state = "done"
    /\ btasks[1].state = "acquire"
    /\ btasks[2].state = "send"
    /\ semaphore = 0

\* the bytes lo .. hi-1 of the output file are those of the resource
Holds(lo, hi) == Slice(output.data, lo, hi) = ResBytes(lo, hi)

\* C8: a worker that got a status other than 206 (200 included) has
\* returned the error for that status and has written nothing: its segment
\* is still the zero fill; and the transfer does not report success.
C8_WorkersRequire206 ==
    \A i \in Workers :
        tasks[i].status \notin {0, 206} =>
            /\ tasks[i].state = "err"
            /\ tasks[i].error = BadStatus(tasks[i].status)
            /\ tasks[i].current_pos = tasks[i].start
            /\ Slice(output.data, tasks[i].start, tasks[i].end + 1) =
                  <<Run("zero", 0, tasks[i].end + 1 - tasks[i].start)>>
            /\ ~Succeeded

\* task 1 got 200 after task 0 had finished its segment: the transfer failed
C8_Witness ==
    /\ Failed
    /\ result = BadStatus(200)
    /\ tasks[0].state = "ok"
    /\ tasks[1].status = 200
    /\ Holds(0, tasks[1].start)

\* C9: once workers have been started, download_parallel returns success
\* only when no worker failed, an error it returns is the error of a failed
\* worker, the file keeps its length and every byte the workers have
\* written, and download_single is never entered.
C9_WorkerFailureFailsAll ==
    tasks # <<>> =>
        /\ Succeeded => \A i \in Workers : tasks[i].state = "ok"
        /\ Failed => \E i \in Workers :
                        tasks[i].state = "err" /\ result = tasks[i].error
        /\ output.exists
        /\ FileLen(output.data) = total_size
        /\ \A i \in Workers : Holds(tasks[i].start, tasks[i].current_pos)
        /\ strategy = "parallel"
        /\ stream = NoStream
        /\ pc \in {"join", "done"}

\* task 0 timed out with part of its segment written; the part is on disk
C9_Witness ==
    /\ Failed
    /\ tasks # <<>>
    /\ tasks[0].state = "err"
    /\ tasks[0].error.kind = "IdleTimeout"
    /\ tasks[0].current_pos > tasks[0].start
    /\ output.data[1] = Run("res", 0, tasks[0].current_pos)

\* what the end of a stalled wait must look like: the stream's task ends
\* with IdleTimeout(idle_timeout) and the file is left as it is
StallAborts ==
    /\ (pc = "single_stream" /\ stream.idle >= args.idle_timeout
          /\ stream' # stream) =>
            /\ result' = IdleTimeout(args.idle_timeout)
            /\ pc' = "done"
            /\ output' = output
    /\ \A i \in Workers :
          (tasks[i].state = "streaming" /\ tasks[i].idle >= args.idle_timeout
             /\ i \in DOMAIN tasks' /\ tasks'[i] # tasks[i]) =>
            /\ tasks'[i].state = "err"
            /\ tasks'[i].error = IdleTimeout(args.idle_timeout)
            /\ tasks'[i].current_pos = tasks[i].current_pos
            /\ output' = output

\* every chunk received is in the file when the timeout has been returned
StalledKeepsBytes ==
    /\ (pc = "single_stream" => stream.idle <= args.idle_timeout)
    /\ \A i \in Waiting : tasks[i].idle <= args.idle_timeout
    /\ (result.kind = "IdleTimeout" /\ strategy = "single") =>
          /\ result.secs = args.idle_timeout
          /\ Slice(output.data, FileLen(output.data) - rx,
                   FileLen(output.data)) =
                ResBytes(stream.boff - rx, stream.boff)
    /\ (result.kind = "IdleTimeout" /\ tasks # <<>>) =>
          /\ result.secs = args.idle_timeout
          /\ \E i \in Workers : tasks[i].error = result
          /\ \A i \in Workers : Holds(tasks[i].start, tasks[i].current_pos)

\* C10: a stream, of download_single or of a worker, that has had no chunk
\* for idle_timeout seconds since the last chunk or since it began ends with
\* IdleTimeout carrying the configured idle_timeout and nothing else; the
\* chunks received before are in the file and stay there.
C10_IdleWatchdog == []StalledKeepsBytes /\ [][StallAborts]_vars

\* a stream that wrote a chunk, then stalled for idle_timeout seconds and was
\* aborted with IdleTimeout, the chunk still in the file
C10_Witness ==
    /\ Failed
    /\ strategy = "single"
    /\ result = IdleTimeout(2)
    /\ rx > 0
    /\ stream.idle = 2
    /\ Holds(0, rx)

Planned == plan.state \in {"selected", "segmented"}

SegIdx == DOMAIN plan.segments
SegBytes(i) == plan.segments[i].start .. plan.segments[i].end

\* C4: whenever chunk = (total_size - resume_offset) div N > 0, the N
\* segments are non-empty, contiguous (start of i+1 = end of i, plus 1),
\* pairwise disjoint, begin at resume_offset, end at total_size - 1, and
\* together are exactly the bytes resume_offset .. total_size - 1.
C4_SegmentsPartition ==
    (plan.state = "segmented" /\ plan.chunk_size > 0) =>
        /\ SegIdx = 0 .. plan.parallel - 1
        /\ plan.segments[0].start = plan.downloaded
        /\ plan.segments[plan.parallel - 1].end = plan.total_size - 1
        /\ \A i \in SegIdx : plan.segments[i].start <= plan.segments[i].end
        /\ \A i \in SegIdx :
              i + 1 \in SegIdx =>
                 plan.segments[i + 1].start = plan.segments[i].end + 1
        /\ \A i, j \in SegIdx :
              i < j => plan.segments[i].end < plan.segments[j].start
        /\ plan.total_size <= 100 =>
              /\ UNION {SegBytes(i) : i \in SegIdx} =
                    plan.downloaded .. plan.total_size - 1
              /\ \A i, j \in SegIdx :
                    i # j => SegBytes(i) \cap SegBytes(j) = {}

\* three tasks and a remainder: 5 bytes from offset 1 of 6 go 1-1, 2-2, 3-5
C4_Witness ==
    /\ plan.state = "segmented"
    /\ plan.parallel = 3
    /\ plan.total_size = 6
    /\ plan.downloaded = 1
    /\ plan.chunk_size = 1
    /\ plan.segments[2] = [start |-> 3, end |-> 5]

\* C6: download_file takes the parallel downloader exactly when range
\* support is confirmed, total_size is known and above 10 MB, the requested
\* parallelism is above 1 and resume_offset < total_size; with total_size
\* unknown (0) it is single-stream whatever the parallelism.
C6_StrategySelection ==
    Planned =>
        /\ plan.use_parallel <=>
              /\ plan.supports_range
              /\ plan.total_size > 0
              /\ plan.total_size > 10000000
              /\ plan.parallel > 1
              /\ plan.downloaded < plan.total_size
        /\ plan.total_size = 0 => ~plan.use_parallel

\* the parallel branch taken at the edge: one byte above the threshold, one byte left
C6_Witness ==
    /\ plan.state = "selected"
    /\ plan.use_parallel
    /\ plan.total_size = 10000001
    /\ plan.downloaded = 10000000
    /\ plan.parallel = 2

Scenario1M ==
    /\ plan.total_size = 1000000
    /\ plan.supports_range
    /\ plan.parallel = 4
    /\ plan.downloaded = 0

\* C7 as stated: with total_size 1,000,000, ranges supported, parallelism 4
\* and resume_offset 0 the transfer is split into 4 segments of 250,000
\* bytes, the last one ending at byte 999,999.
C7_Original ==
    (Planned /\ Scenario1M) => plan.use_parallel

\* C7 amended: for these arguments download_file takes single-stream, as
\* 1,000,000 is not above the threshold; download_parallel's partition of
\* them is 4 segments of 250,000 bytes, the last ending at byte 999,999.
C7_Amended ==
    /\ (Planned /\ Scenario1M) => ~plan.use_parallel
    /\ (plan.state = "segmented" /\ Scenario1M) =>
          /\ DOMAIN plan.segments = 0 .. 3
          /\ \A i \in 0 .. 3 :
                plan.segments[i].end - plan.segments[i].start + 1 = 250000
          /\ plan.segments[3].end = 999999

\* download_parallel applied to the arguments of the scenario: four segments
C7_Witness ==
    /\ plan.state = "segmented"
    /\ Scenario1M
    /\ plan.segments[0] = [start |-> 0, end |-> 249999]

\* the single stream gives up waiting, with either class of timeout
SingleTimesOut ==
    /\ pc = "single_stream"
    /\ pc' = "done"
    /\ result'.kind \in {"IdleTimeout", "ConnectTimeout"}

\* worker i gives up waiting for its body, with either class of timeout
WorkerTimesOut(i) ==
    /\ tasks[i].state = "streaming"
    /\ tasks'[i].state = "err"
    /\ tasks'[i].error.kind \in {"IdleTimeout", "ConnectTimeout"}

NoTimeoutWhileFlowing ==
    /\ SingleTimesOut => stream.since >= args.idle_timeout
    /\ \A i \in Workers :
          WorkerTimesOut(i) => tasks[i].since >= args.idle_timeout

\* C11: a body is given up with a timeout only when idle_timeout seconds
\* have passed since its last chunk (or since the response, before the first
\* chunk): however long the transfer has run in all, a chunk that comes less
\* than idle_timeout after the one before is never followed by a timeout.
\* The client of a download sets no bound on the duration of the request.
C11_IdleFromLastChunk ==
    /\ [](~total_timeout("Download").bounded)
    /\ [][NoTimeoutWhileFlowing]_vars

\* a transfer that ran longer than idle_timeout in all, and succeeded
C11_Witness ==
    /\ Succeeded
    /\ strategy = "single"
    /\ stream.state = "ended"
    /\ stream.chunks >= 2
    /\ stream.elapsed > args.idle_timeout

\* benchmark_url has returned
BenchReturned == bench.pc = "done"

\* the status is one record_request takes for a success
InSuccessRange(code) == 200 <= code /\ code < 400

BenchDone == {i \in BTasks : btasks[i].state = "done"}
BenchFailed == {i \in BenchDone : ~InSuccessRange(btasks[i].code)}
BenchSucceeded == {i \in BenchDone : InSuccessRange(btasks[i].code)}

\* C12: whichever requests fail, with a transport error or a status outside
\* [200,400), benchmark_url returns only after every one of the R tasks has
\* finished and the report is printed; the report covers all R requests and
\* counts each failed request as one failed sample.
C12_FailuresNeverAbort ==
    BenchReturned =>
        /\ BenchDone = 0 .. bench.requests - 1
        /\ report.printed
        /\ report.total_requests = bench.requests
        /\ report.failed_requests = Cardinality(BenchFailed)

\* a run with a transport error, a refused request and a success, reported
C12_Witness ==
    /\ BenchReturned
    /\ report.printed
    /\ \E i, j, k \in BTasks :
          /\ btasks[i].code = 0
          /\ btasks[j].code = 400
          /\ btasks[k].code = 200
    /\ report.failed_requests = 2

\* C13: the report is computed only when all R tasks have finished, from
\* exactly R latency samples and counters that add up to R.
C13_NeverPartial ==
    report.printed =>
        /\ BenchDone = 0 .. bench.requests - 1
        /\ Len(stats.response_times) = bench.requests
        /\ stats.successful_requests + stats.failed_requests = bench.requests
        /\ report.successful_requests + report.failed_requests = bench.requests

\* more requests than permits, so tasks finished one after another
C13_Witness ==
    /\ report.printed
    /\ bench.requests = 3
    /\ bench.concurrency = 1
    /\ Len(stats.response_times) = 3

\* C14: at every moment the successful counter is the number of finished
\* requests whose status is in [200,400) and the failed counter the number
\* of all other finished requests (other statuses, transport errors); so
\* when all R responses have status 200 the report shows R and 0.
C14_SuccessIffStatus ==
    /\ stats.successful_requests = Cardinality(BenchSucceeded)
    /\ stats.failed_requests = Cardinality(BenchFailed)
    /\ (report.printed /\ \A i \in BTasks : btasks[i].code = 200) =>
          /\ report.successful_requests = bench.requests
          /\ report.failed_requests = 0

\* the edges of the range: 199 and 400 failed, 399 successful
C14_Witness ==
    /\ report.printed
    /\ \E i, j, k \in BTasks :
          /\ btasks[i].code = 199
          /\ btasks[j].code = 399
          /\ btasks[k].code = 400
    /\ report.successful_requests = 1
    /\ report.failed_requests = 2

\* the number of samples of q below v, and not above v
CountBelow(q, v) == Cardinality({i \in DOMAIN q : q[i] < v})
CountUpTo(q, v) == Cardinality({i \in DOMAIN q : q[i] <= v})

\* the sample of q at place k (from 0) when the samples are put in ascending
\* order
OrderStat(q, k) ==
    CHOOSE v \in {q[i] : i \in DOMAIN q} :
        CountBelow(q, v) <= k /\ k < CountUpTo(q, v)

\* min(floor(len * num / 100), len - 1)
OrderIndex(len, num) == Min((len * num) \div 100, len - 1)

\* C15: for a non-empty sample the percentiles reported are the order
\* statistics at index min(floor(len*p), len-1) of the samples in ascending
\* order, in whatever order they were recorded; for the latencies 10, 20,
\* 30, 40, 50 the report shows p50 = 30, p95 = 50, p99 = 50.
C15_PercentileOrderStatistic ==
    (report.printed /\ stats.response_times # <<>>) =>
        LET q == stats.response_times
            n == Len(q)
        IN /\ report.p50 = OrderStat(q, OrderIndex(n, 50))
           /\ report.p95 = OrderStat(q, OrderIndex(n, 95))
           /\ report.p99 = OrderStat(q, OrderIndex(n, 99))
           /\ (n = 5 /\ {q[i] : i \in 1 .. n} = {10, 20, 30, 40, 50}) =>
                 /\ report.p50 = 30
                 /\ report.p95 = 50
                 /\ report.p99 = 50

\* the five latencies of the example, recorded out of order
C15_Witness ==
    /\ report.printed
    /\ stats.response_times = <<50, 10, 40, 20, 30>>
    /\ report.p50 = 30
    /\ report.p95 = 50
    /\ report.p99 = 50

\* C16: a single-stream response whose status is neither 200 nor 206 is
\* never streamed: the download fails with the status as its error and no
\* body byte is received or written.
C16_SingleProtocolError ==
    /\ "status" \in DOMAIN stream => stream.status \in {200, 206}
    /\ (strategy = "single" /\ pc = "done" /\ result.kind = "Status") =>
          rx = 0

\* bytes the single stream has written so far
SingleWritten == stream.current_downloaded - downloaded

\* C17: the GET of download_single carries Range: bytes=<resume_offset>-
\* exactly when resume_offset > 0; the output file exists once it is opened,
\* and the chunks written so far are, in the order they came, what follows
\* the first resume_offset bytes of the file.
C17_RangeAndAppend ==
    stream.state # "none" =>
        /\ stream.range_sent <=> downloaded > 0
        /\ stream.range_sent => stream.range_from = downloaded
        /\ output.exists
        /\ ("boff" \in DOMAIN stream /\ SingleWritten > 0) =>
              Drop(output.data, downloaded) =
                  ResBytes(stream.boff - SingleWritten, stream.boff)

\* C18: no download error caused by a stalled connection is untyped: the
\* error of a GET whose send() timed out is ConnectTimeout, in the
\* single-stream path and in every worker, and the error of a stalled body is
\* IdleTimeout with the configured seconds.
C18_TimeoutClasses ==
    /\ \A i \in Workers : tasks[i].error # Transport(TRUE)
    /\ strategy # "none" => result # Transport(TRUE)
    /\ result.kind = "IdleTimeout" => result.secs = args.idle_timeout

\* build_client goes through one more header
ProcessesHeader == client.state = "headers" /\ client'.n = client.n + 1

HasColon(h) == \E i \in DOMAIN h : h[i] = 58

\* the header has a colon, and a name or a value that cannot be encoded
Unencodable(h) == parse_header(h).error \in {"name", "value"}

HeaderSkippedOrInstalled ==
    ProcessesHeader =>
        LET h == client'.header
            parsed == parse_header(h)
        IN /\ client'.state = "headers"
           /\ ~HasColon(h) =>
                 /\ client'.warned
                 /\ client'.header_map = client.header_map
           /\ parsed.ok =>
                 /\ ~client'.warned
                 /\ DOMAIN client'.header_map =
                       DOMAIN client.header_map \cup {parsed.name}
                 /\ client'.header_map[parsed.name] = parsed.value
                 /\ \A x \in DOMAIN client.header_map \ {parsed.name} :
                       client'.header_map[x] = client.header_map[x]

\* C19: no header string makes build_client fail: a header without a colon
\* is skipped with a warning and leaves the header map as it was, a header
\* that parses is installed under its name, in place of the value an
\* earlier header gave that name, and the other names keep their values.
C19_MalformedHeaderSkipped == [][HeaderSkippedOrInstalled]_vars

\* two headers given, the second one "A:A" installed under the name "a"
C19_Witness ==
    /\ client.state = "built"
    /\ client.n = 2
    /\ client.header = <<65, 58, 65>>
    /\ ~client.warned
    /\ client.header_map = (<<97>> :> <<65>>)

UnencodableSkipped ==
    (ProcessesHeader /\ Unencodable(client'.header)) =>
        /\ client'.state = "headers"
        /\ client'.warned
        /\ client'.header_map = client.header_map

Probed == strategy # "none"

\* the Content-Length values that read as the non-negative integer n
ReadsAs(n) == {to_decimal(n), <<43>> \o to_decimal(n), <<48>> \o to_decimal(n)}

ProbeResult ==
    Probed =>
        /\ total_size = IF /\ head.content_length.present
                           /\ head.content_length.text \in ReadsAs(resource_len)
                        THEN resource_len ELSE 0
        /\ supports_range <=> head.accept_ranges = Header(BytesText)

\* the step of download_file at which the HEAD request fails
HeadFails == pc = "idle" /\ pc' = "done" /\ strategy' = "none"

HeadFailureAborts ==
    HeadFails =>
        /\ result'.kind = "Transport"
        /\ output' = output
        /\ gets' = 0 /\ rx' = 0
        /\ stream' = NoStream /\ tasks' = <<>>

\* C21: the probe's total_size is the Content-Length when the header is there
\* and reads as a non-negative integer, 0 otherwise; supports_range holds
\* exactly when Accept-Ranges is there with the value "bytes"; a HEAD request
\* that fails ends download_file at once with an error, with no GET sent and
\* the output file neither created nor changed.
C21_ProbeResult == []ProbeResult /\ [][HeadFailureAborts]_vars

C21_Witness ==
    /\ Probed
    /\ head.content_length = Header(<<43>> \o to_decimal(resource_len))
    /\ total_size = resource_len
    /\ head.accept_ranges = Header(<<66, 121, 116, 101, 115>>)
    /\ ~supports_range

\* ---------------------------------------------------------------------- C22
\* the step that creates the progress bar (core.rs:257, core.rs:420)
BarCreated ==
    \/ pc = "download_single" /\ pc' # "download_single"
    \/ pc = "download_parallel" /\ pc' = "join"

\* a chunk of rx' - rx bytes has arrived and has been written
ChunkWritten == rx' > rx /\ output' # output

ProgressStep ==
    /\ runs_left' = runs_left => pb' >= pb
    /\ BarCreated => pb' = downloaded
    /\ ChunkWritten => pb' - pb = rx' - rx

\* C22: within one invocation the progress position never decreases, in
\* single-stream and in parallel mode under every interleaving of the
\* workers; it starts at resume_offset, and every written chunk moves it by
\* exactly the chunk's length.
C22_ProgressMonotone == [][ProgressStep]_vars

C22_Witness ==
    /\ strategy = "parallel"
    /\ downloaded > 0
    /\ \E i, j \in DOMAIN tasks :
         i # j /\ tasks[i].chunks > 0 /\ tasks[j].chunks > 0
    /\ pb = downloaded + rx

\* ---------------------------------------------------------------------- C23
\* what worker i has written so far lies at its segment's start, in arrival
\* order: the bytes start .. current_pos - 1 of the file are those bytes of
\* the resource
WrittenInPlace(i) ==
    Slice(output.data, tasks[i].start, tasks[i].current_pos)
        = ResBytes(tasks[i].start, tasks[i].current_pos)

\* C23: the workers of download_parallel write through one file handle with
\* no shared cursor: under every interleaving each chunk lands at the
\* worker's start plus the bytes it has written so far, in arrival order,
\* and no other worker's seek or write displaces or overwrites it.
C23_PositionedWrites ==
    \A i \in Workers : tasks[i].status = 206 => WrittenInPlace(i)

\* ---------------------------------------------------------------------- C24
\* task i waits in semaphore.acquire()
AwaitsPermit(i) == i \in BTasks /\ btasks[i].state = "acquire"

\* C24: with a limiter of capacity K >= 1, where every task that holds a
\* permit finishes its request and releases it, every task that waits in
\* acquire is admitted in the end.
C24_EventualAdmission ==
    \A i \in 0 .. MaxRequests - 1 :
        (bench.concurrency >= 1 /\ AwaitsPermit(i)) ~> ~AwaitsPermit(i)

\* a task holds a permit that an earlier holder has released, with all other
\* permits never used twice
C24_Witness ==
    /\ bench.pc = "join"
    /\ bench.concurrency >= 1
    /\ \E i \in BTasks :
         /\ btasks[i].state = "send"
         /\ Cardinality({j \in BTasks : btasks[j].state = "done"})
                >= bench.concurrency

\* ---------------------------------------------------------------------- C25
\* download_parallel has returned the error of a worker
ParallelFailed ==
    /\ strategy = "parallel"
    /\ pc = "done"
    /\ result # Ok
    /\ tasks # <<>>

\* worker i has a body open that has more to give
StillReceiving(i) ==
    /\ tasks[i].state = "streaming"
    /\ tasks[i].left > 0
    /\ tasks[i].idle < args.idle_timeout
    /\ tasks[i].chunks < MaxChunks

\* the step at which download_parallel returns the error
ReturnsError == pc = "join" /\ pc' = "done" /\ result' # Ok

\* C25: when download_parallel returns an error because a worker failed it
\* cancels no sibling: the return leaves every worker as it was, so that one
\* that is still receiving goes on to write to the output file (the witness
\* is a state after the return in which a sibling's next write is enabled).
C25_SiblingsNotCancelled == [][ReturnsError => tasks' = tasks]_vars

C25_Witness ==
    /\ ParallelFailed
    /\ \E i \in Workers : StillReceiving(i) /\ ENABLED worker_chunk(i)

\* ---------------------------------------------------------------------- C26
\* the requests that returned status s
Returned(s) == {i \in BTasks : btasks[i].code = s}

\* the requests that failed in transport
TransportFailed == {i \in BTasks : btasks[i].code = 0}

\* the count the report shows for status s
Shown(s) ==
    IF s \in DOMAIN report.status_codes THEN report.status_codes[s] ELSE 0

RECURSIVE SumOver(_, _)
SumOver(f, S) ==
    IF S = {} THEN 0
    ELSE LET s == CHOOSE x \in S : TRUE IN f[s] + SumOver(f, S \ {s})

\* t tenths of a percent is the tenth nearest to count out of total
NearestTenth(t, count, total) ==
    /\ 2 * (t * total - 1000 * count) <= total
    /\ 2 * (1000 * count - t * total) <= total

\* C26: at report time the histogram's count of every status s is the number
\* of requests that returned s, the counts add up to R less the requests
\* that failed in transport, and every percentage is count/R, whatever the
\* order in which the tasks recorded.
C26_Histogram ==
    report.printed =>
        /\ \A s \in BenchOutcomes \ {0} : Shown(s) = Cardinality(Returned(s))
        /\ DOMAIN report.status_codes \subseteq BenchOutcomes \ {0}
        /\ SumOver(report.status_codes, DOMAIN report.status_codes)
             = bench.requests - Cardinality(TransportFailed)
        /\ DOMAIN report.percent = DOMAIN report.status_codes
        /\ \A s \in DOMAIN report.percent :
             NearestTenth(report.percent[s], report.status_codes[s],
                          bench.requests)

C26_Witness ==
    /\ report.printed
    /\ bench.requests = 3
    /\ bench.concurrency = 2
    /\ Shown(200) = 2
    /\ report.percent[200] = 667
    /\ TransportFailed # {}

\* ---------------------------------------------------------------------- C27
\* download_parallel has found chunk_size = 0 and has called download_single
Degraded ==
    /\ strategy = "parallel"
    /\ pc # "download_parallel"
    /\ total_size > downloaded
    /\ chunk_size(total_size, downloaded, args.parallel) = 0

\* C27: when download_parallel degrades to download_single the outcome is
\* that of download_single invoked with the same resume_offset: the first
\* resume_offset bytes of the output file stay, the remaining bytes follow
\* them, and on success the file has total_size bytes and is the resource.
C27_DegradeAsSingle ==
    Degraded =>
        /\ Take(output.data, downloaded) = Take(before.data, downloaded)
        /\ (Succeeded /\ ServedProperly) =>
              /\ FileLen(output.data) = total_size
              /\ Drop(output.data, downloaded)
                    = ResBytes(downloaded, total_size)
              /\ IsPrefix(before.data) => Complete

\* ---------------------------------------------------------------------- C28
\* the invocation resumes a file of L > 0 bytes
Resumes ==
    /\ args # NoArgs
    /\ args.continue_download
    /\ before.exists
    /\ FileLen(before.data) > 0

\* C28: an invocation with continue=true on a file of L > 0 bytes never
\* changes the bytes 0 .. L-1 of the file, in single-stream and in parallel
\* mode, whether it succeeds or fails.
C28_PrefixUntouched ==
    Resumes => Take(output.data, FileLen(before.data)) = before.data

\* ---------------------------------------------------------------------- C29
\* C29: an invocation with continue=false on a path that holds a file ends,
\* on success, with the output file equal to the resource: nothing of the
\* file that was there remains, in single-stream and in parallel mode.
C29_Overwrites ==
    (/\ Succeeded
     /\ ~args.continue_download
     /\ ServedProperly) => (NoOld(output.data) /\ Complete)

\* ---------------------------------------------------------------------- C30
\* C30: in a single-stream resume with a Range header sent, body bytes are
\* appended only from a 206 answer; the body of a 200 answer is not appended
\* after the existing bytes, and the file never gets longer than total_size.
C30_RangeHonoured ==
    (/\ strategy = "single"
     /\ stream.state # "none"
     /\ stream.range_sent) =>
        /\ SingleWritten > 0 => stream.status = 206
        /\ total_size > 0 => FileLen(output.data) <= total_size

\* ---------------------------------------------------------------------- C31
\* download_parallel has returned success from its join loop
ParallelSucceeded == strategy = "parallel" /\ Succeeded /\ tasks # <<>>

\* C31: when download_parallel returns success every worker has received and
\* written its whole range, end - start + 1 bytes, so that every byte from
\* resume_offset to total_size - 1 of the output file holds the data received
\* for it; a worker whose body ended early does not count as a success.
C31_ParallelComplete ==
    ParallelSucceeded =>
        /\ \A i \in Workers :
              tasks[i].current_pos - tasks[i].start
                  = tasks[i].end - tasks[i].start + 1
        /\ Slice(output.data, downloaded, total_size)
              = ResBytes(downloaded, total_size)

\* ---------------------------------------------------------------------- C32
\* C32: the workers are joined in index order: an error download_parallel
\* returns is that of the failed worker with the lowest index, returned once
\* every worker before it has finished with success; success is returned only
\* after all the workers have finished with success.
C32_JoinInIndexOrder ==
    (strategy = "parallel" /\ tasks # <<>>) =>
        /\ \A j \in Workers : j < join_i => tasks[j].state = "ok"
        /\ Failed => /\ join_i \in Workers
                     /\ tasks[join_i].state = "err"
                     /\ result = tasks[join_i].error
        /\ Succeeded => /\ join_i = args.parallel
                        /\ \A i \in Workers : tasks[i].state = "ok"

\* two workers have failed with different errors; the error returned is that
\* of worker 0
C32_Witness ==
    /\ strategy = "parallel"
    /\ Failed
    /\ join_i = 0
    /\ tasks[1].state = "err"
    /\ tasks[1].error # tasks[0].error
    /\ result = tasks[0].error

\* ---------------------------------------------------------------------- C33
\* workers between their acquire and their return
PermitHeld ==
    {i \in Workers : tasks[i].state \in {"send", "streaming", "writing"}}

\* workers that have returned, whatever the way
Returned33 == {i \in Workers : tasks[i].state \in {"ok", "err"}}

BenchFinished == {i \in BTasks : btasks[i].state = "done"}

\* C33: at every moment the permits held and the permits available add up to
\* K: a worker holds one from its acquire to its return, a benchmark task
\* from its acquire to the end of record_request, and every way out of a task
\* gives the permit back, so that when all tasks of a run have finished all K
\* permits are available.
C33_PermitAccounting ==
    /\ tasks # <<>> =>
          /\ permits + Cardinality(PermitHeld) = args.parallel
          /\ Returned33 = Workers => permits = args.parallel
    /\ bench.pc \in {"join", "done"} =>
          /\ semaphore + Cardinality(BenchHolders) = bench.concurrency
          /\ BenchFinished = BTasks => semaphore = bench.concurrency

\* both workers are back, one with Ok and one after an idle timeout
C33_Witness ==
    /\ Returned33 = Workers
    /\ \E i, j \in Workers :
         /\ tasks[i].state = "ok"
         /\ tasks[j].error.kind = "IdleTimeout"
    /\ permits = args.parallel
    /\ args.parallel = 2

\* ---------------------------------------------------------------------- C34
\* C34: benchmark_url terminates for every request count and every
\* concurrency the command line accepts, 0 included: as long as it has not
\* produced its report, one of its tasks or its join loop can take a step
\* (every GET that is out ends), so no task waits for a permit for ever.
C34_BenchTerminates == bench.pc = "join" => ENABLED NextBench

\* ---------------------------------------------------------------------- C35
\* the latencies recorded when the report was printed
Samples == {stats.response_times[k] : k \in DOMAIN stats.response_times}

\* C35: for a sample set that is not empty the report has
\* min <= p50 <= p95 <= p99 <= max and min <= avg <= max, min and max the
\* smallest and the largest sample and avg the integer quotient of the sum by
\* the number of samples; for no samples all six are 0.
C35_StatisticsOrdered ==
    report.printed =>
        IF stats.response_times = <<>>
        THEN /\ report.min_time = 0 /\ report.max_time = 0
             /\ report.avg_time = 0
             /\ report.p50 = 0 /\ report.p95 = 0 /\ report.p99 = 0
        ELSE /\ report.min_time \in Samples
             /\ \A x \in Samples : report.min_time <= x
             /\ report.max_time \in Samples
             /\ \A x \in Samples : x <= report.max_time
             /\ report.min_time <= report.p50
             /\ report.p50 <= report.p95
             /\ report.p95 <= report.p99
             /\ report.p99 <= report.max_time
             /\ report.avg_time * Len(stats.response_times)
                   <= Sum(stats.response_times)
             /\ Sum(stats.response_times)
                   < (report.avg_time + 1) * Len(stats.response_times)
             /\ report.min_time <= report.avg_time
             /\ report.avg_time <= report.max_time

\* samples pushed out of order, with an average that is not a sample
C35_Witness ==
    /\ report.printed
    /\ Len(stats.response_times) >= 3
    /\ stats.response_times[1] > stats.response_times[2]
    /\ report.min_time < report.p50
    /\ report.p50 < report.max_time
    /\ report.avg_time \notin Samples

\* the options of the download command
DownloadOptions == {"parallel", "continue_download", "idle_timeout", "http3"}

\* what the user supplied on the command line: the value typed for an
\* option, true for a flag that was typed
Supplied ==
    [parallel |-> cmd.typed.parallel,
     continue_download |->
         IF cmd.typed.continue_download THEN Some(TRUE) ELSE None,
     idle_timeout |-> cmd.typed.idle_timeout,
     http3 |-> IF cmd.typed.http3 THEN Some(TRUE) ELSE None]

BuiltInDefault == Commands_Download(NoCmd.typed)

\* the handler called download_file in a run with -x
RunsWithCache == cmd.typed.use_cache /\ cmd.pc = "download_file"

\* C36: when a download runs with -x, every option passed to download_file
\* is the value the user supplied on the command line, otherwise the cached
\* value, otherwise the built-in default
C36_MergePrecedence ==
    RunsWithCache =>
        \A f \in DownloadOptions :
            cmd.passed[f] =
                unwrap_or(or(Supplied[f], cmd.loaded[f]), BuiltInDefault[f])

\* the user supplied option f and the cache holds another value for it
Conflicting(f) ==
    /\ Supplied[f].some
    /\ cmd.loaded[f].some
    /\ Supplied[f].v # cmd.loaded[f].v

\* C37: in a run with -x, when the cache is empty or a supplied option
\* differs from its cached value, download_file is not called and the
\* cache stays as it was loaded; every conflict reported is for an option
\* with a cached and a supplied value that differ
C37_ConflictAborts ==
    cmd.typed.use_cache /\ cmd.pc # "none" =>
        /\ (is_empty(cmd.loaded) \/ \E f \in DownloadOptions : Conflicting(f))
               => /\ cmd.pc = "done"
                  /\ cmd.passed = NoCmd.passed
                  /\ cache = cmd.loaded
        /\ \A f \in cmd.conflicts : Conflicting(f)

\* C38: the cache differs from what the invocation loaded only once the
\* command has returned Ok and --no-save was not set
C38_SavedAfterSuccess ==
    cmd.pc # "none" /\ cache # cmd.loaded =>
        /\ cmd.pc = "done"
        /\ cmd.result = Ok
        /\ ~cmd.typed.no_save

\* the last n elements of s
LastN(s, n) == SubSeq(s, Len(s) - n + 1, Len(s))

\* C39: the history never holds more than max_entries entries, they are
\* the most recently added ones in insertion order, and get_recent(limit)
\* returned the last min(limit, len) entries of the history it was called on
C39_BoundedQueue ==
    /\ Len(history.entries) <= history.max_entries
    /\ history.entries = LastN(added, Min(history.max_entries, Len(added)))
    /\ recent.called =>
           recent.entries = LastN(recent.of, Min(recent.limit, Len(recent.of)))

\* entries were evicted, and get_recent was asked for fewer than there are
C39_Witness ==
    /\ Len(added) > history.max_entries + 1
    /\ history.max_entries >= 2
    /\ recent.called
    /\ recent.limit > 0
    /\ recent.limit < Len(recent.of)
    /\ recent.of[1] > 1

\* SnakeDirection d reversed
Opposite(d) ==
    CASE d = "Up" -> "Down" [] d = "Down" -> "Up"
      [] d = "Left" -> "Right" [] d = "Right" -> "Left"

\* C40: whatever direction keys were pressed since the previous tick, the
\* direction move_forward uses is never the opposite of the direction of
\* the snake's previous move
C40_NoReverse ==
    game.pc # "none" /\ game.used # "none" /\ game.prev # "none" =>
        game.used # Opposite(game.prev)

====
